---- MODULE Spec2Model ----
(***************************************************************************)
(* The flow execution engine of FLUJO: BaseNode / Flow (temp_pocket.ts),   *)
(* the graph builder (FlowConverter) and the orchestration loop.           *)
(*                                                                         *)
(* Node objects and params objects are JavaScript references, so the model *)
(* keeps a heap of params objects and lets node objects hold references    *)
(* into it: aliasing is what cloning is about.                             *)
(***************************************************************************)
EXTENDS Integers, Sequences, FiniteSets, TLC

VARIABLES
    desc,     \* the graph description handed to the builder: [nodes, edges]
    wiring,   \* "converter": built by FlowConverter.convert; "manual": wired through the BaseNode API
    bpc,      \* position of the builder: "input" | "returned" | "raised"
    berr,     \* the error the builder raised, "" when none
    tmpl,     \* nodesMap: node id -> node object held by the graph (the templates)
    flow,     \* the Flow object: [start, table]; table is flow_params.nodeParams
    heap,     \* params objects: reference -> contents
    clone,    \* per traversal: the node object last cloned for it
    pc,       \* per traversal: position inside Flow.orchestrate / BaseNode.run
    cur,      \* per traversal: reference to currentNode
    shared,   \* per traversal: its SharedState
    hist,     \* per traversal: what happened in the current orchestrate call (observation only)
    ex        \* the call in progress of a run method above orchestrate (executeFlow, BatchFlow.run,
              \* a node's run), NoEx when the model drives orchestrate directly

vars == <<desc, wiring, bpc, berr, tmpl, flow, heap, clone, pc, cur, shared, hist, ex>>

-----------------------------------------------------------------------------
(* Bounds of the model *)

MaxNodes == 2      \* node descriptors in a description
MaxEdges == 2      \* edge descriptors in a description
MaxParEdges == 1   \* edge descriptors of the graphs two traversals share

(* Program constants *)

DEFAULT_ACTION == "default"
STAY_ON_NODE_ACTION == "STAY_ON_NODE"
FINAL_RESPONSE_ACTION == "FINAL_RESPONSE"

-----------------------------------------------------------------------------
(* Values *)

NoId == "undefined"                       \* JavaScript undefined, as an id
Ids == {"A", "B"}                         \* node ids of descriptions
KnownTypes == {"start", "process", "mcp", "finish"}
Types == {"start", "process", "widget"}   \* types of descriptors; "widget" is unknown to the builder
EdgeIds == {"e1", "e2", ""}               \* "" is a missing edge id
Runs == {"r1", "r2"}                      \* traversals, each with its own SharedState

NodeDescs == [id : Ids, type : Types]
EdgeDescs == [id : EdgeIds, source : Ids, target : Ids]

SeqsUpTo(S, n) == UNION {[1..k -> S] : k \in 0..n}

(* References to params objects.  P/Q: the flow_params / node_params object *)
(* created for the node built from a descriptor id; F: the Flow's own       *)
(* flow_params; CF/CN: the flow_params / node_params of a traversal's clone *)
FlowRef == <<"F", "flow">>
Undef == <<"undefined", "">>
PRefs == ({"P", "Q"} \X Ids) \cup {FlowRef} \cup ({"CF", "CN"} \X Runs)

EmptyParams == [id |-> NoId, prop |-> 0]   \* {}
EmptyHeap == [p \in PRefs |-> EmptyParams]

NoNode == [kind |-> "none", fp |-> Undef, np |-> Undef, successors |-> <<>>]

-----------------------------------------------------------------------------
(* BaseNode *)

\* new XNode(): flow_params = {}, node_params = {}, successors = new Map()
NewNode(kind, id) ==
    [kind |-> kind, fp |-> <<"P", id>>, np |-> <<"Q", id>>, successors |-> <<>>]

\* Map.has / Map.get on a successor map kept in insertion order
Has(successors, action) ==
    \E i \in 1..Len(successors) : successors[i].action = action

Get(successors, action) ==
    successors[CHOOSE i \in 1..Len(successors) : successors[i].action = action].target

\* A setParams that also empties the successor map
setParamsReset(node, params, node_params) ==
    [node EXCEPT !.fp = params,
                 !.np = IF node_params # Undef THEN node_params ELSE @,
                 !.successors = <<>>]

\* BaseNode.setParams(params, node_params?)
setParams(node, params, node_params) ==
    [node EXCEPT !.fp = params,
                 !.np = IF node_params # Undef THEN node_params ELSE @]

\* A registration that replaces an existing entry instead of raising
addSuccessorOverwrite(node, newSuccessor, action) ==
    [raised |-> FALSE,
     node |-> [node EXCEPT !.successors =
                  IF Has(@, action)
                  THEN [i \in 1..Len(@) |->
                           IF @[i].action = action
                           THEN [action |-> action, target |-> newSuccessor]
                           ELSE @[i]]
                  ELSE Append(@, [action |-> action, target |-> newSuccessor])]]

\* BaseNode.addSuccessor(newSuccessor, action): [raised, node]
addSuccessor(node, newSuccessor, action) ==
    IF Has(node.successors, action)
    THEN [raised |-> TRUE, node |-> node]
    ELSE [raised |-> FALSE,
          node |-> [node EXCEPT !.successors =
                        Append(@, [action |-> action, target |-> newSuccessor])]]

\* A clone that shares the params objects of the original
cloneNodeShallow(h, node, cf, cn) ==
    [node |-> [kind |-> node.kind, fp |-> node.fp, np |-> node.np,
               successors |-> node.successors],
     heap |-> h]

\* BaseNode.clone(): the new node object, with its params deep-copied into
\* the fresh heap cells cf and cn and its successor map copied shallowly
cloneNode(h, node, cf, cn) ==
    [node |-> [kind |-> node.kind, fp |-> cf, np |-> cn,
               successors |-> node.successors],
     heap |-> [h EXCEPT ![cf] = h[node.fp], ![cn] = h[node.np]]]

-----------------------------------------------------------------------------
(* The graph builder *)

\* The params object {id, label, type, properties} made for a descriptor
NodeParams(d) == [id |-> d.id, prop |-> 0]

\* A dispatch that builds a node for a type it does not know
createNodeLenient(b, d, w) ==
    LET node == setParams(NewNode(d.type, d.id), <<"P", d.id>>, Undef)
        h1 == [b.heap EXCEPT ![<<"P", d.id>>] = NodeParams(d)]
    IN [b EXCEPT !.heap = h1,
                 !.tmpl = [n \in (DOMAIN b.tmpl) \cup {d.id} |->
                              IF n = d.id THEN node ELSE b.tmpl[n]]]

\* FlowConverter.createNode(node): dispatch on the type, then setParams(params).
\* Under "manual" wiring the caller passes the id in node_params as well.
createNode(b, d, w) ==
    IF d.type \notin KnownTypes
    THEN [b EXCEPT !.status = "raised", !.err = "Unknown node type"]
    ELSE LET node == setParams(NewNode(d.type, d.id), <<"P", d.id>>, Undef)
             h1 == [b.heap EXCEPT ![<<"P", d.id>>] = NodeParams(d),
                                  ![<<"Q", d.id>>] =
                                      IF w = "manual" THEN NodeParams(d) ELSE EmptyParams]
         IN [b EXCEPT !.heap = h1,
                      !.tmpl = [n \in (DOMAIN b.tmpl) \cup {d.id} |->
                                   IF n = d.id THEN node ELSE b.tmpl[n]]]

\* First pass of convert: create all nodes
RECURSIVE CreatePass(_, _, _, _)
CreatePass(b, nodes, i, w) ==
    IF i > Len(nodes) \/ b.status = "raised" THEN b
    ELSE CreatePass(createNode(b, nodes[i], w), nodes, i + 1, w)

\* An action name that ignores the edge's id
EdgeActionDefault(e) == DEFAULT_ACTION

\* The action name of an edge: edge.id || 'default'
EdgeAction(e) == IF e.id = "" THEN DEFAULT_ACTION ELSE e.id

\* One iteration of the second pass: connect the edge's nodes when both exist
connectEdge(b, e) ==
    IF e.source \in DOMAIN b.tmpl /\ e.target \in DOMAIN b.tmpl
    THEN LET r == addSuccessor(b.tmpl[e.source], e.target, EdgeAction(e))
         IN IF r.raised
            THEN [b EXCEPT !.status = "raised", !.err = "Action already exists"]
            ELSE [b EXCEPT !.tmpl[e.source] = r.node]
    ELSE b

\* Second pass of convert: connect nodes based on edges
RECURSIVE ConnectPass(_, _, _)
ConnectPass(b, edges, j) ==
    IF j > Len(edges) \/ b.status = "raised" THEN b
    ELSE ConnectPass(connectEdge(b, edges[j]), edges, j + 1)

\* reactFlow.nodes.find(node => node.type === 'start'): index of the first, 0 when none
FindStart(nodes) ==
    IF \E i \in 1..Len(nodes) : nodes[i].type = "start"
    THEN CHOOSE i \in 1..Len(nodes) :
             /\ nodes[i].type = "start"
             /\ \A k \in 1..(i - 1) : nodes[k].type # "start"
    ELSE 0

NoFlow == [start |-> NoId, table |-> <<>>]

\* The tail of convert: find the start node, new Flow(start), setParams({nodeParams})
makeFlow(b, nodes, w) ==
    LET s == FindStart(nodes) IN
    IF b.status = "raised" THEN b
    ELSE IF s = 0
    THEN [b EXCEPT !.status = "raised", !.err = "Flow must have a start node"]
    ELSE IF nodes[s].id \notin DOMAIN b.tmpl
    THEN [b EXCEPT !.status = "raised", !.err = "Failed to create start node"]
    ELSE [b EXCEPT !.status = "returned",
                   !.flow = [start |-> nodes[s].id,
                             table |-> IF w = "manual" THEN <<>>
                                       ELSE [n \in DOMAIN b.tmpl |-> b.tmpl[n].fp]]]

NewBuild ==
    [status |-> "building", err |-> "", tmpl |-> <<>>, heap |-> EmptyHeap, flow |-> NoFlow]

\* Building the graph of description d with wiring w
build(d, w) ==
    makeFlow(ConnectPass(CreatePass(NewBuild, d.nodes, 1, w), d.edges, 1), d.nodes, w)

\* FlowConverter.convert(reactFlow)
convert(d) == build(d, "converter")

-----------------------------------------------------------------------------
(* Flow: start node, resume search, successor resolution *)

\* References to node objects: the clone a traversal holds, or an object of the graph
NoCur == [ref |-> "none", of |-> NoId]
CloneOf(n) == [ref |-> "clone", of |-> n]
Template(n) == [ref |-> "tmpl", of |-> n]

\* The node object a reference of traversal r denotes
Deref(t, cl, r, c) == IF c.ref = "tmpl" THEN t[c.of] ELSE cl[r]

\* Flow.getStartNode(): this.start.clone()
getStartNode(h, t, f, r) == cloneNode(h, t[f.start], <<"CF", r>>, <<"CN", r>>)

\* A lookup that ignores the action name and takes the first registered target
getSuccessorFirst(h, t, node, name, r) ==
    IF node.successors = <<>>
    THEN [found |-> FALSE, of |-> NoId, node |-> NoNode, heap |-> h]
    ELSE LET target == node.successors[1].target
             c == cloneNode(h, t[target], <<"CF", r>>, <<"CN", r>>)
         IN [found |-> TRUE, of |-> target, node |-> c.node, heap |-> c.heap]

\* A lookup that, when nothing is registered under the name, hands out a
\* node of the graph again
getSuccessorAgain(h, t, node, name, r) ==
    LET target == IF Has(node.successors, name) THEN Get(node.successors, name)
                  ELSE CHOOSE n \in DOMAIN t : TRUE
        c == cloneNode(h, t[target], <<"CF", r>>, <<"CN", r>>)
    IN [found |-> TRUE, of |-> target, node |-> c.node, heap |-> c.heap]

\* BaseNode.getSuccessor(name): undefined, or a clone of the registered target
getSuccessor(h, t, node, name, r) ==
    IF ~Has(node.successors, name)
    THEN [found |-> FALSE, of |-> NoId, node |-> NoNode, heap |-> h]
    ELSE LET target == Get(node.successors, name)
             c == cloneNode(h, t[target], <<"CF", r>>, <<"CN", r>>)
         IN [found |-> TRUE, of |-> target, node |-> c.node, heap |-> c.heap]

\* An inner loop that pushes without marking the id as seen
RECURSIVE EnqueueUnmarked(_, _, _, _, _, _)
EnqueueUnmarked(t, h, successors, i, queue, visited) ==
    IF i > Len(successors) THEN [queue |-> queue, visited |-> visited]
    ELSE LET successorId == h[t[successors[i].target].np].id
         IN IF successorId # NoId /\ successorId \notin visited
            THEN EnqueueUnmarked(t, h, successors, i + 1,
                                 Append(queue, Template(successors[i].target)),
                                 visited)
            ELSE EnqueueUnmarked(t, h, successors, i + 1, queue, visited)

\* The inner loop of the resume search: push the successors of a node whose
\* node_params id is set and was not seen, in the order of the successor map
RECURSIVE Enqueue(_, _, _, _, _, _)
Enqueue(t, h, successors, i, queue, visited) ==
    IF i > Len(successors) THEN [queue |-> queue, visited |-> visited]
    ELSE LET successorId == h[t[successors[i].target].np].id
         IN IF successorId # NoId /\ successorId \notin visited
            THEN Enqueue(t, h, successors, i + 1,
                         Append(queue, Template(successors[i].target)),
                         visited \cup {successorId})
            ELSE Enqueue(t, h, successors, i + 1, queue, visited)

\* The resume search of orchestrate: breadth-first from the start clone, by
\* node_params id.  Returns the reference found, or NoCur.
RECURSIVE resumeSearch(_, _, _, _, _, _)
resumeSearch(t, h, startNode, currentNodeId, queue, visited) ==
    IF queue = <<>> THEN NoCur
    ELSE LET c == Head(queue)
             node == IF c.ref = "tmpl" THEN t[c.of] ELSE startNode
             nodeId == h[node.np].id
         IN IF nodeId = currentNodeId THEN c
            ELSE LET e == Enqueue(t, h, node.successors, 1, Tail(queue), visited)
                 IN resumeSearch(t, h, startNode, currentNodeId, e.queue, e.visited)

\* An entry that, when the search fails, begins at a successor of the start
entryNodeSkipsStart(h, t, f, r, currentNodeId) ==
    LET g == getStartNode(h, t, f, r)
        found == IF currentNodeId # NoId
                 THEN resumeSearch(t, g.heap, g.node, currentNodeId,
                                   <<CloneOf(f.start)>>, {})
                 ELSE NoCur
    IN IF found.ref = "tmpl"
       THEN [cur |-> found, node |-> NoNode, heap |-> h]
       ELSE IF currentNodeId # NoId /\ Len(g.node.successors) > 0
       THEN [cur |-> Template(g.node.successors[1].target), node |-> NoNode, heap |-> h]
       ELSE [cur |-> CloneOf(f.start), node |-> g.node, heap |-> g.heap]

\* The entry of orchestrate: the node to begin with
entryNode(h, t, f, r, currentNodeId) ==
    LET g == getStartNode(h, t, f, r)
        found == IF currentNodeId # NoId
                 THEN resumeSearch(t, g.heap, g.node, currentNodeId,
                                   <<CloneOf(f.start)>>, {})
                 ELSE NoCur
    IN IF found.ref = "tmpl"
       THEN [cur |-> found, node |-> NoNode, heap |-> h]
       ELSE [cur |-> CloneOf(f.start), node |-> g.node, heap |-> g.heap]

\* The params orchestrate applies to currentNode: the table entry of the id in
\* the node's flow_params, else the flow params; and the node_params it passes
tableEntry(h, f, node) ==
    IF h[node.fp].id \in DOMAIN f.table THEN f.table[h[node.fp].id] ELSE Undef

\* A choice of params that ignores the table
paramsToSetFlow(h, f, node) == FlowRef

paramsToSet(h, f, node) ==
    IF tableEntry(h, f, node) # Undef THEN tableEntry(h, f, node) ELSE FlowRef

\* A loop that never takes the suspend branch
isSuspendNever(action) == FALSE

\* action === STAY_ON_NODE_ACTION
isSuspend(action) == action = STAY_ON_NODE_ACTION

\* sharedState.currentNodeId = currentNode.node_params?.id
pausedState(s, h, node) == [s EXCEPT !.currentNodeId = h[node.np].id]

\* A completion that leaves the resume position in place
completedStateKeep(s) == s

\* sharedState.currentNodeId = undefined
completedState(s) == [s EXCEPT !.currentNodeId = NoId]

\* Cells of a traversal's clone that no node object references any more
\* hold nothing the program can reach: they are emptied.
Collect(h, cl) ==
    [p \in PRefs |->
        IF p[1] \in {"CF", "CN"} /\ p \notin {cl[p[2]].fp, cl[p[2]].np}
        THEN EmptyParams ELSE h[p]]

-----------------------------------------------------------------------------
(* Initial states *)

\* What a traversal's current orchestrate call has done: the currentNodeId it
\* was entered with (until its first node has run), whether the node last
\* run is the first of the call, the node last run, the action it returned,
\* whether getSuccessor was called with that action, and how the call ended
NoHist ==
    [entry |-> NoId, first |-> FALSE, node |-> NoId, action |-> "",
     resolved |-> FALSE, outcome |-> "none"]

NewShared == [currentNodeId |-> NoId]

NoEx == [pos |-> "none"]

IdleRuns ==
    /\ ex = NoEx
    /\ clone = [r \in Runs |-> NoNode]
    /\ pc = [r \in Runs |-> "idle"]
    /\ cur = [r \in Runs |-> NoCur]
    /\ shared = [r \in Runs |-> NewShared]
    /\ hist = [r \in Runs |-> NoHist]

Descs == [nodes : SeqsUpTo(NodeDescs, MaxNodes), edges : SeqsUpTo(EdgeDescs, MaxEdges)]

\* Descriptions the traversals run on: start node A, process node B
FlowNodes == <<[id |-> "A", type |-> "start"], [id |-> "B", type |-> "process"]>>
FlowDescs == [nodes : {FlowNodes}, edges : SeqsUpTo(EdgeDescs, MaxEdges)]

\* Nothing is built yet
Unbuilt ==
    /\ bpc = "input"
    /\ berr = ""
    /\ tmpl = <<>>
    /\ flow = NoFlow
    /\ heap = EmptyHeap
    /\ IdleRuns

\* A description is at hand, to be built by the converter or by hand
Init ==
    /\ desc \in FlowDescs
    /\ wiring \in {"converter", "manual"}
    /\ Unbuilt

\* The graph is built: FlowConverter.convert(desc), or the same wiring by hand
Build ==
    /\ bpc = "input"
    /\ LET b == build(desc, wiring)
       IN /\ bpc' = b.status
          /\ berr' = b.err
          /\ tmpl' = b.tmpl
          /\ flow' = b.flow
          /\ heap' = b.heap
    /\ UNCHANGED <<ex, desc, wiring, clone, pc, cur, shared, hist>>

-----------------------------------------------------------------------------
(* Flow.orchestrate, one action per stretch between two awaits *)

PostActions ==
    {"e1", "e2", DEFAULT_ACTION, STAY_ON_NODE_ACTION, FINAL_RESPONSE_ACTION}

Running(r) == pc[r] \in {"prep", "exec", "post"}

\* The caller rehydrates a SharedState between two calls
Rehydrate(r, id) ==
    /\ bpc = "returned"
    /\ pc[r] = "idle"
    /\ shared[r].currentNodeId # id
    /\ shared' = [shared EXCEPT ![r].currentNodeId = id]
    /\ hist' = [hist EXCEPT ![r] = NoHist]
    /\ UNCHANGED <<ex, desc, wiring, bpc, berr, tmpl, flow, heap, clone, pc, cur>>

\* orchestrate(sharedState, this.flow_params, this.flow_params.nodeParams) up
\* to the loop: pick the start node or the node to resume at
OrchestrateEnter(r) ==
    /\ bpc = "returned"
    /\ pc[r] = "idle"
    /\ LET e == entryNode(heap, tmpl, flow, r, shared[r].currentNodeId)
           cl == [clone EXCEPT ![r] = e.node]
       IN /\ cur' = [cur EXCEPT ![r] = e.cur]
          /\ clone' = cl
          /\ heap' = Collect(e.heap, cl)
    /\ pc' = [pc EXCEPT ![r] = "loop"]
    /\ hist' = [hist EXCEPT ![r] =
                   [NoHist EXCEPT !.entry = shared[r].currentNodeId,
                                  !.outcome = "running"]]
    /\ UNCHANGED <<ex, desc, wiring, bpc, berr, tmpl, flow, shared>>

\* A loop head that records the position before the node runs
BeginNodeMarks(r) ==
    /\ pc[r] = "loop"
    /\ LET node == Deref(tmpl, clone, r, cur[r])
           n2 == setParams(node, paramsToSet(heap, flow, node),
                           tableEntry(heap, flow, node))
           cl == IF cur[r].ref = "clone" THEN [clone EXCEPT ![r] = n2] ELSE clone
       IN /\ clone' = cl
          /\ tmpl' = IF cur[r].ref = "tmpl"
                     THEN [tmpl EXCEPT ![cur[r].of] = n2] ELSE tmpl
          /\ heap' = Collect(heap, cl)
          /\ shared' = [shared EXCEPT ![r] = pausedState(@, heap, n2)]
    /\ pc' = [pc EXCEPT ![r] = "prep"]
    /\ hist' = [hist EXCEPT ![r].first = (hist[r].node = NoId),
                            ![r].node = cur[r].of,
                            ![r].action = "",
                            ![r].resolved = FALSE]
    /\ UNCHANGED <<ex, desc, wiring, bpc, berr, flow, cur>>

\* The head of the loop: currentNode.setParams(paramsToSet, nodeParams[id]),
\* then currentNode.run(sharedState) up to its first await
BeginNode(r) ==
    /\ pc[r] = "loop"
    /\ LET node == Deref(tmpl, clone, r, cur[r])
           n2 == setParams(node, paramsToSet(heap, flow, node),
                           tableEntry(heap, flow, node))
           cl == IF cur[r].ref = "clone" THEN [clone EXCEPT ![r] = n2] ELSE clone
       IN /\ clone' = cl
          /\ tmpl' = IF cur[r].ref = "tmpl"
                     THEN [tmpl EXCEPT ![cur[r].of] = n2] ELSE tmpl
          /\ heap' = Collect(heap, cl)
    /\ pc' = [pc EXCEPT ![r] = "prep"]
    /\ hist' = [hist EXCEPT ![r].first = (hist[r].node = NoId),
                            ![r].node = cur[r].of,
                            ![r].action = "",
                            ![r].resolved = FALSE]
    /\ UNCHANGED <<ex, desc, wiring, bpc, berr, flow, cur, shared>>

\* BaseNode.run: await this.prep(...)
Prep(r) ==
    /\ pc[r] = "prep"
    /\ pc' = [pc EXCEPT ![r] = "exec"]
    /\ UNCHANGED <<ex, desc, wiring, bpc, berr, tmpl, flow, heap, clone, cur, shared, hist>>

\* BaseNode.run: await this.execWrapper(...)
Exec(r) ==
    /\ pc[r] = "exec"
    /\ pc' = [pc EXCEPT ![r] = "post"]
    /\ UNCHANGED <<ex, desc, wiring, bpc, berr, tmpl, flow, heap, clone, cur, shared, hist>>

\* A node writes a property of its own flow_params (which = "fp") or
\* node_params (which = "np") while it runs
NodeWrite(r, which) ==
    /\ Running(r)
    /\ LET node == Deref(tmpl, clone, r, cur[r])
           p == IF which = "fp" THEN node.fp ELSE node.np
       IN /\ heap[p].prop = 0
          /\ heap' = [heap EXCEPT ![p].prop = 1]
    /\ UNCHANGED <<ex, desc, wiring, bpc, berr, tmpl, flow, clone, pc, cur, shared, hist>>

\* post returns `action`; orchestrate pauses, completes or moves to the successor
Post(r, action) ==
    /\ pc[r] = "post"
    /\ LET node == Deref(tmpl, clone, r, cur[r])
           s == getSuccessor(heap, tmpl, node, action, r)
       IN IF isSuspend(action)
          THEN /\ shared' = [shared EXCEPT ![r] = pausedState(@, heap, node)]
               /\ pc' = [pc EXCEPT ![r] = "idle"]
               /\ cur' = [cur EXCEPT ![r] = NoCur]
               /\ clone' = [clone EXCEPT ![r] = NoNode]
               /\ heap' = Collect(heap, [clone EXCEPT ![r] = NoNode])
               /\ hist' = [hist EXCEPT ![r].action = action, ![r].entry = NoId,
                                       ![r].outcome = "paused"]
          ELSE IF s.found
          THEN /\ cur' = [cur EXCEPT ![r] = CloneOf(s.of)]
               /\ clone' = [clone EXCEPT ![r] = s.node]
               /\ heap' = s.heap
               /\ pc' = [pc EXCEPT ![r] = "loop"]
               /\ hist' = [hist EXCEPT ![r].action = action, ![r].entry = NoId,
                                       ![r].resolved = TRUE]
               /\ UNCHANGED shared
          ELSE /\ shared' = [shared EXCEPT ![r] = completedState(@)]
               /\ pc' = [pc EXCEPT ![r] = "idle"]
               /\ cur' = [cur EXCEPT ![r] = NoCur]
               /\ clone' = [clone EXCEPT ![r] = NoNode]
               /\ heap' = Collect(heap, [clone EXCEPT ![r] = NoNode])
               /\ hist' = [hist EXCEPT ![r].action = action, ![r].entry = NoId,
                                       ![r].resolved = TRUE,
                                       ![r].outcome = "completed"]
    /\ UNCHANGED <<ex, desc, wiring, bpc, berr, tmpl, flow>>

\* What traversal r may do next
Step(r) ==
    \/ \E id \in Ids \cup {NoId} : Rehydrate(r, id)
    \/ OrchestrateEnter(r)
    \/ BeginNode(r)
    \/ Prep(r)
    \/ Exec(r)
    \/ \E which \in {"fp", "np"} : NodeWrite(r, which)
    \/ \E action \in PostActions : Post(r, action)

\* The graph is built, then one SharedState is driven through orchestrate
\* call after call
Next == Build \/ Step("r1")

Spec == Init /\ [][Next]_vars

\* Two traversals of the same Flow, interleaved at their awaits
InitPar ==
    /\ Init
    /\ Len(desc.edges) <= MaxParEdges

NextPar == Build \/ \E r \in Runs : Step(r)

SpecPar == InitPar /\ [][NextPar]_vars

-----------------------------------------------------------------------------
(* The builder alone: any description, one call of convert *)

InitBuild ==
    /\ desc \in Descs
    /\ wiring = "converter"
    /\ Unbuilt

NextBuild == Build

SpecBuild == InitBuild /\ [][NextBuild]_vars

-----------------------------------------------------------------------------
(* Cloning alone: a template T (held as node "A"), its clones c1 and c2     *)
(* (held as the clones of r1 and r2), and mutations of c1                   *)

Actions == {"e1", "e2", DEFAULT_ACTION}

SuccessorMaps ==
    {m \in SeqsUpTo([action : Actions, target : Ids], MaxEdges) :
        \A i, j \in 1..Len(m) : m[i].action = m[j].action => i = j}

\* What can be seen of a node object: the contents of its params, its successors
View(h, node) == [fp |-> h[node.fp], np |-> h[node.np], successors |-> node.successors]

\* desc is the template as constructed
InitClone ==
    /\ desc \in [fp : [id : {"A"}, prop : {0, 1}],
                 np : [id : {"A", NoId}, prop : {0, 1}],
                 successors : SuccessorMaps]
    /\ wiring = "manual"
    /\ bpc = "input"
    /\ berr = ""
    /\ tmpl = [n \in {"A"} |-> [NewNode("process", "A") EXCEPT !.successors = desc.successors]]
    /\ flow = NoFlow
    /\ heap = [EmptyHeap EXCEPT ![<<"P", "A">>] = desc.fp, ![<<"Q", "A">>] = desc.np]
    /\ IdleRuns

\* c = T.clone()
CloneTemplate(r) ==
    /\ clone[r] = NoNode
    /\ LET c == cloneNode(heap, tmpl["A"], <<"CF", r>>, <<"CN", r>>)
       IN /\ clone' = [clone EXCEPT ![r] = c.node]
          /\ heap' = c.heap
    /\ UNCHANGED <<ex, desc, wiring, bpc, berr, tmpl, flow, pc, cur, shared, hist>>

\* A write into the clone's flow_params or node_params: of a top-level
\* property (the id) or of a nested one (a property of properties)
MutateParams(r, which, field) ==
    /\ clone[r] # NoNode
    /\ LET p == IF which = "fp" THEN clone[r].fp ELSE clone[r].np
       IN heap' = IF field = "id"
                  THEN [heap EXCEPT ![p].id = IF @ = "B" THEN "A" ELSE "B"]
                  ELSE [heap EXCEPT ![p].prop = 1 - @]
    /\ UNCHANGED <<ex, desc, wiring, bpc, berr, tmpl, flow, clone, pc, cur, shared, hist>>

\* c.addSuccessor(target, action); berr holds the error of the last call
AddSuccessor(r, target, action) ==
    /\ clone[r] # NoNode
    /\ LET a == addSuccessor(clone[r], target, action)
       IN /\ clone' = [clone EXCEPT ![r] = a.node]
          /\ berr' = IF a.raised THEN "Action already exists" ELSE ""
    /\ UNCHANGED <<ex, desc, wiring, bpc, tmpl, flow, heap, pc, cur, shared, hist>>

NextClone ==
    \/ \E r \in Runs : CloneTemplate(r)
    \/ \E which \in {"fp", "np"}, field \in {"id", "prop"} : MutateParams("r1", which, field)
    \/ \E target \in Ids, action \in Actions : AddSuccessor("r1", target, action)

SpecClone == InitClone /\ [][NextClone]_vars

-----------------------------------------------------------------------------
(* The run facade (FlowExecutor.executeFlow) over the concrete node kinds   *)

MaxVisits == 3      \* nodes run in one call of executeFlow
MaxExecEdges == 3   \* edge descriptors of the graphs the facade runs

Main == "r1"        \* the traversal of the facade's call

\* A message of the history.  The content "parts" stands for content that is
\* not a string (an array of parts)
Msg(role, content) == [role |-> role, content |-> content]

Contents == {"done", "", "parts"}

InitialMessages ==
    {<<>>, <<Msg("user", "hi")>>}
        \cup {<<Msg("user", "hi"), Msg("assistant", c)>> : c \in Contents}

\* Values of lastResponse and of result.result: undefined, a string, the
\* failure object {success:false, error, errorDetails}, the object {content, role}
NoResponse == [kind |-> "undefined", value |-> ""]
Text(c) == [kind |-> "text", value |-> c]
FailureObject(e) == [kind |-> "failure", value |-> e]
ContentObject(c) == [kind |-> "object", value |-> c]

\* JavaScript truthiness of such a value
Truthy(v) == v.kind # "undefined" /\ ~(v.kind = "text" /\ v.value = "")

\* Reading the property `name` of an object: undefined when it has none
Field(object, name) == IF name \in DOMAIN object THEN object[name] ELSE NoId

\* Errors raised out of a call
NoErr == [kind |-> "none", message |-> "", code |-> "", node |-> NoId]
Err(kind, message, code, node) ==
    [kind |-> kind, message |-> message, code |-> code, node |-> node]

\* The initialState objects a caller hands to executeFlow: with or without a
\* flowId, with or without a trackingInfo object, with a message history
InitialStates == [flowId : BOOLEAN, trackingInfo : BOOLEAN, messages : InitialMessages]

\* sharedState = {...initialState, flowName, startTime, nodeExecutionTracker: []}
\* (currentNodeId is kept in shared[Main]; the trackingInfo object, shared
\* by reference with initialState, is kept in ex.tinfo)
newSharedState(initialState) ==
    [flowId |-> initialState.flowId,
     messages |-> initialState.messages,
     lastResponse |-> NoResponse,
     nodeExecutionTracker |-> <<>>]

NoState ==
    [flowId |-> FALSE, messages |-> <<>>, lastResponse |-> NoResponse,
     nodeExecutionTracker |-> <<>>]

\* The object executeFlow returns
NoOut == [result |-> NoResponse, messages |-> <<>>, nodeExecutionTracker |-> <<>>]

flowResult(state) ==
    [result |-> IF Truthy(state.lastResponse) THEN state.lastResponse
                ELSE Text("Flow execution completed"),
     messages |-> state.messages,
     nodeExecutionTracker |-> state.nodeExecutionTracker]

\* What ModelHandler.callModel (with the tool preparation before it) can come
\* to: a result with content, a provider failure {code, details}, whose
\* details may carry a code of their own, a failure to prepare the tools, an
\* exception flagged isCriticalToolError, or any other exception
Codes == {"rate_limit", "upstream_429"}

ModelOutcomes ==
    [kind : {"ok"}, content : {"", "hello"}, withMessages : BOOLEAN,
     code : {""}, dcode : {"absent"}]
    \cup [kind : {"provider"}, content : {""}, withMessages : {FALSE},
          code : {"rate_limit"}, dcode : {"absent"} \cup Codes]
    \cup [kind : {"tools_failed", "critical_tool", "thrown"}, content : {""},
          withMessages : {FALSE}, code : {""}, dcode : {"absent"}]

NoOutcome ==
    [kind |-> "none", content |-> "", withMessages |-> FALSE, code |-> "", dcode |-> "absent"]

\* What a process node finds configured: a bound model and resolvable tools,
\* no bound model, or MCP nodes that fail to resolve
PrepOutcomes == {"ok", "no_model", "mcp_failed"}

NoPrep == [nodeId |-> NoId, messages |-> <<>>]
NoResult == [success |-> TRUE, content |-> "", messages |-> <<>>, error |-> ""]

\* A prep that puts the rendered prompt before the whole history
processPrepKeep(state, nodeId, cfg) ==
    IF nodeId = NoId \/ ~state.flowId \/ cfg # "ok"
    THEN [raised |-> TRUE, prep |-> NoPrep,
          err |-> Err("prep", "Process node requires configuration", "", nodeId)]
    ELSE [raised |-> FALSE, err |-> NoErr,
          prep |-> [nodeId |-> nodeId,
                    messages |-> <<Msg("system", "prompt")>> \o state.messages]]

\* ProcessNode.prep: [raised, err, prep]
processPrep(state, nodeId, cfg) ==
    IF nodeId = NoId \/ ~state.flowId
    THEN [raised |-> TRUE, prep |-> NoPrep,
          err |-> Err("prep", "Process node requires node ID and flow ID", "", nodeId)]
    ELSE IF cfg = "no_model"
    THEN [raised |-> TRUE, prep |-> NoPrep,
          err |-> Err("prep", "Process node requires a bound model", "", nodeId)]
    ELSE IF cfg = "mcp_failed"
    THEN [raised |-> TRUE, prep |-> NoPrep,
          err |-> Err("prep", "Failed to process MCP nodes", "", nodeId)]
    ELSE [raised |-> FALSE, err |-> NoErr,
          prep |-> [nodeId |-> nodeId,
                    messages |-> <<Msg("system", "prompt")>>
                        \o SelectSeq(state.messages, LAMBDA m : m.role # "system")]]

\* An execute phase that turns a provider failure into a failure-shaped result
processExecCoreAbsorb(prep, o) ==
    IF o.kind = "ok"
    THEN [raised |-> FALSE, err |-> NoErr,
          result |-> [success |-> TRUE, content |-> o.content, error |-> "",
                      messages |-> IF o.withMessages
                                   THEN Append(prep.messages, Msg("assistant", o.content))
                                   ELSE <<>>]]
    ELSE [raised |-> FALSE, err |-> NoErr,
          result |-> [success |-> FALSE, content |-> "", messages |-> <<>>,
                      error |-> o.kind]]

\* ProcessNode.execCore: [raised, err, result].  A provider failure is thrown
\* with details {code: error.code, ...error.details}; flagged errors are
\* rethrown; anything else thrown inside the try becomes a failure result
processExecCore(prep, o) ==
    IF o.kind = "ok"
    THEN [raised |-> FALSE, err |-> NoErr,
          result |-> [success |-> TRUE, content |-> o.content, error |-> "",
                      messages |-> IF o.withMessages
                                   THEN Append(prep.messages, Msg("assistant", o.content))
                                   ELSE <<>>]]
    ELSE IF o.kind = "provider"
    THEN [raised |-> TRUE, result |-> NoResult,
          err |-> Err("model", "Model execution failed",
                      IF o.dcode = "absent" THEN o.code ELSE o.dcode, prep.nodeId)]
    ELSE IF o.kind = "critical_tool"
    THEN [raised |-> TRUE, result |-> NoResult,
          err |-> Err("tool", "Critical tool error", "", prep.nodeId)]
    ELSE [raised |-> FALSE, err |-> NoErr,
          result |-> [success |-> FALSE, content |-> "", messages |-> <<>>,
                      error |-> o.kind]]

\* Action names that denote tool bindings: they contain "-mcpEdge" or "-mcp"
\* or end in "mcpEdge"
IsMcpAction(action) == action \in {"t-mcp", "t-mcpEdge", "out-mcp"}

\* A selection that takes the action registered last
firstActionLast(successors, skipMcp, fallback) ==
    LET actions == SelectSeq([i \in 1..Len(successors) |-> successors[i].action],
                             LAMBDA a : ~(skipMcp /\ IsMcpAction(a)))
    IN IF Len(actions) > 0 THEN actions[Len(actions)] ELSE fallback

\* The first action of a successor map that passes the filter, else the fallback
firstAction(successors, skipMcp, fallback) ==
    LET actions == SelectSeq([i \in 1..Len(successors) |-> successors[i].action],
                             LAMBDA a : ~(skipMcp /\ IsMcpAction(a)))
    IN IF Len(actions) > 0 THEN actions[1] ELSE fallback

\* The entry a node appends to the execution tracker
TrackerEntry(nodeType, nodeId) == [nodeType |-> nodeType, nodeId |-> nodeId]

\* The trackingInfo object: absent, or holding its nodeExecutionTracker
NoTrackingInfo == [present |-> FALSE, entries |-> <<>>]
NewTrackingInfo == [present |-> TRUE, entries |-> <<>>]

\* ProcessNode.post: [raised, err, state, tinfo, action].  The state is
\* written before sharedState.trackingInfo is read
processPost(state, tinfo, node, nodeId, prep, result) ==
    LET s1 == IF ~result.success
              THEN [state EXCEPT !.lastResponse = FailureObject(result.error)]
              ELSE IF result.content # ""
              THEN [state EXCEPT !.lastResponse = Text(result.content)]
              ELSE state
        s2 == IF Len(result.messages) > 0
              THEN [s1 EXCEPT !.messages = result.messages] ELSE s1
    IN IF ~tinfo.present
       THEN [raised |-> TRUE, state |-> s2, tinfo |-> tinfo, action |-> "",
             err |-> Err("type", "Cannot read properties of undefined", "", nodeId)]
       ELSE [raised |-> FALSE, err |-> NoErr, state |-> s2,
             tinfo |-> [tinfo EXCEPT !.entries =
                           Append(@, TrackerEntry("ProcessNode", nodeId))],
             action |-> firstAction(node.successors, TRUE, "default")]

\* FinishNode.prep
finishPrep(state, nodeId) == [nodeId |-> nodeId, messages |-> state.messages]

\* A post that leaves the last response as it was
finishPostSilent(state, tinfo, feature, node, nodeId, prep) ==
    IF feature /\ ~tinfo.present
    THEN [raised |-> TRUE, state |-> state, tinfo |-> tinfo, action |-> "",
          err |-> Err("type", "Cannot read properties of undefined", "", nodeId)]
    ELSE [raised |-> FALSE, err |-> NoErr, state |-> state, tinfo |-> tinfo,
          action |-> firstAction(node.successors, FALSE,
                                 FINAL_RESPONSE_ACTION)]

\* FinishNode.post: [raised, err, state, tinfo, action].  trackingInfo is
\* read only when the tracker feature is on
finishPost(state, tinfo, feature, node, nodeId, prep) ==
    LET n == Len(prep.messages)
        last == IF n > 0 THEN prep.messages[n] ELSE Msg("none", "")
        s1 == IF n > 0 /\ last.role = "assistant" /\ last.content # ""
              THEN [state EXCEPT !.lastResponse =
                       IF last.content = "parts" THEN ContentObject(last.content)
                       ELSE Text(last.content)]
              ELSE state
    IN IF feature /\ ~tinfo.present
       THEN [raised |-> TRUE, state |-> state, tinfo |-> tinfo, action |-> "",
             err |-> Err("type", "Cannot read properties of undefined", "", nodeId)]
       ELSE [raised |-> FALSE, err |-> NoErr, state |-> s1,
             tinfo |-> IF feature
                       THEN [tinfo EXCEPT !.entries =
                                Append(@, TrackerEntry("FinishNode", nodeId))]
                       ELSE tinfo,
             action |-> firstAction(node.successors, FALSE,
                                    FINAL_RESPONSE_ACTION)]

\* The actions a start or tool-binding node may return: one of its registered
\* actions, the fallback, or the suspend token
abstractActions(node) ==
    {node.successors[i].action : i \in 1..Len(node.successors)}
        \cup {DEFAULT_ACTION, STAY_ON_NODE_ACTION}

\* The graphs the facade runs: start node A, a second node B of any type,
\* wired by some of these edges in some order
ExecTypes == {"process", "finish", "mcp", "widget"}

ExecEdges ==
    {[id |-> "e1", source |-> "A", target |-> "B"],
     [id |-> "e1", source |-> "B", target |-> "A"],
     [id |-> "t-mcp", source |-> "B", target |-> "A"],
     [id |-> "e2", source |-> "B", target |-> "B"]}

ExecDescs ==
    [nodes : {<<[id |-> "A", type |-> "start"], [id |-> "B", type |-> t]>> : t \in ExecTypes},
     edges : {es \in SeqsUpTo(ExecEdges, MaxExecEdges) :
                 \A i, j \in 1..Len(es) : es[i] = es[j] => i = j}]

\* executeFlow(flowName, initialState) is called; FEATURES is what the build
\* was configured with
InitExec ==
    /\ desc \in ExecDescs
    /\ wiring = "converter"
    /\ bpc = "input"
    /\ berr = ""
    /\ tmpl = <<>>
    /\ flow = NoFlow
    /\ heap = EmptyHeap
    /\ clone = [r \in Runs |-> NoNode]
    /\ pc = [r \in Runs |-> "idle"]
    /\ cur = [r \in Runs |-> NoCur]
    /\ shared = [r \in Runs |-> NewShared]
    /\ hist = [r \in Runs |-> NoHist]
    /\ \E initialState \in InitialStates, feature \in BOOLEAN :
          ex = [pos |-> "called",
                feature |-> feature,
                initialState |-> initialState,
                state |-> NoState,
                tinfo |-> IF initialState.trackingInfo
                          THEN NewTrackingInfo ELSE NoTrackingInfo,
                prepResult |-> NoPrep,
                execResult |-> NoResult,
                outcome |-> NoOutcome,
                out |-> NoOut,
                err |-> NoErr,
                calls |-> <<>>]

\* The steps of the current call, in order: [node, phase]
Call(node, phase) == [node |-> node, phase |-> phase]

Visits == Len(SelectSeq(ex.calls, LAMBDA c : c.phase = "prep"))

\* convert raised: executeFlow rejects before a shared state exists
ConvertRaised ==
    /\ ex.pos = "called"
    /\ bpc = "raised"
    /\ ex' = [ex EXCEPT !.pos = "rejected", !.err = Err("build", berr, "", NoId)]
    /\ UNCHANGED <<desc, wiring, bpc, berr, tmpl, flow, heap, clone, pc, cur, shared, hist>>

\* The shared state is created and pocketFlow.run(sharedState) enters
\* orchestrate: Flow.prep, then the start node is cloned
FlowRunEnter ==
    /\ ex.pos = "called"
    /\ bpc = "returned"
    /\ LET e == entryNode(heap, tmpl, flow, Main, shared[Main].currentNodeId)
           cl == [clone EXCEPT ![Main] = e.node]
       IN /\ cur' = [cur EXCEPT ![Main] = e.cur]
          /\ clone' = cl
          /\ heap' = Collect(e.heap, cl)
    /\ pc' = [pc EXCEPT ![Main] = "loop"]
    /\ ex' = [ex EXCEPT !.pos = "running", !.state = newSharedState(ex.initialState)]
    /\ UNCHANGED <<desc, wiring, bpc, berr, tmpl, flow, shared, hist>>

\* An abort that also clears the position, as the completion does
AbortClears(err, calls, state, tinfo, o) ==
    /\ ex' = [ex EXCEPT !.pos = "rejected", !.err = err, !.calls = calls,
                        !.state = state, !.tinfo = tinfo, !.outcome = o,
                        !.prepResult = NoPrep, !.execResult = NoResult]
    /\ pc' = [pc EXCEPT ![Main] = "idle"]
    /\ cur' = [cur EXCEPT ![Main] = NoCur]
    /\ clone' = [clone EXCEPT ![Main] = NoNode]
    /\ heap' = Collect(heap, [clone EXCEPT ![Main] = NoNode])
    /\ shared' = [shared EXCEPT ![Main] = completedState(@)]
    /\ UNCHANGED <<desc, wiring, bpc, berr, tmpl, flow, hist>>

\* An error leaves node.run, orchestrate, Flow.run and executeFlow (which
\* logs and rethrows it)
Abort(err, calls, state, tinfo, o) ==
    /\ ex' = [ex EXCEPT !.pos = "rejected", !.err = err, !.calls = calls,
                        !.state = state, !.tinfo = tinfo, !.outcome = o,
                        !.prepResult = NoPrep, !.execResult = NoResult]
    /\ pc' = [pc EXCEPT ![Main] = "idle"]
    /\ cur' = [cur EXCEPT ![Main] = NoCur]
    /\ clone' = [clone EXCEPT ![Main] = NoNode]
    /\ heap' = Collect(heap, [clone EXCEPT ![Main] = NoNode])
    /\ UNCHANGED <<desc, wiring, bpc, berr, tmpl, flow, shared, hist>>

\* node.run: prep of the node's kind
NodePrep(cfg) ==
    /\ ex.pos = "running"
    /\ pc[Main] = "prep"
    /\ Visits < MaxVisits
    /\ LET node == Deref(tmpl, clone, Main, cur[Main])
           nodeId == heap[node.np].id
           calls == Append(ex.calls, Call(cur[Main].of, "prep"))
           p == processPrep(ex.state, nodeId, cfg)
       IN IF node.kind = "process" /\ p.raised
          THEN Abort(p.err, calls, ex.state, ex.tinfo, ex.outcome)
          ELSE /\ node.kind # "process" => cfg = "ok"
               /\ ex' = [ex EXCEPT !.calls = calls,
                                   !.prepResult =
                                       IF node.kind = "process" THEN p.prep
                                       ELSE IF node.kind = "finish"
                                       THEN finishPrep(ex.state, nodeId)
                                       ELSE NoPrep]
               /\ pc' = [pc EXCEPT ![Main] = "exec"]
               /\ UNCHANGED <<desc, wiring, bpc, berr, tmpl, flow, heap, clone,
                              cur, shared, hist>>

\* node.run: execWrapper, which calls execCore of the node's kind
NodeExec(o) ==
    /\ ex.pos = "running"
    /\ pc[Main] = "exec"
    /\ LET node == Deref(tmpl, clone, Main, cur[Main])
           calls == Append(ex.calls, Call(cur[Main].of, "exec"))
           x == processExecCore(ex.prepResult, o)
       IN IF node.kind = "process" /\ x.raised
          THEN Abort(x.err, calls, ex.state, ex.tinfo, o) /\ o \in ModelOutcomes
          ELSE /\ IF node.kind = "process" THEN o \in ModelOutcomes ELSE o = NoOutcome
               /\ ex' = [ex EXCEPT !.calls = calls,
                                   !.outcome = o,
                                   !.execResult =
                                       IF node.kind = "process" THEN x.result
                                       ELSE NoResult]
               /\ pc' = [pc EXCEPT ![Main] = "post"]
               /\ UNCHANGED <<desc, wiring, bpc, berr, tmpl, flow, heap, clone,
                              cur, shared, hist>>

\* node.run: post of the node's kind returns an action; orchestrate pauses,
\* completes or moves to the successor; on pause and completion Flow.run
\* and executeFlow return
NodePost(action) ==
    /\ ex.pos = "running"
    /\ pc[Main] = "post"
    /\ LET node == Deref(tmpl, clone, Main, cur[Main])
           nodeId == heap[node.np].id
           calls == Append(ex.calls, Call(cur[Main].of, "post"))
           p == IF node.kind = "process"
                THEN processPost(ex.state, ex.tinfo, node, nodeId,
                                 ex.prepResult, ex.execResult)
                ELSE IF node.kind = "finish"
                THEN finishPost(ex.state, ex.tinfo, ex.feature, node, nodeId,
                                ex.prepResult)
                ELSE [raised |-> FALSE, err |-> NoErr, state |-> ex.state,
                      tinfo |-> ex.tinfo, action |-> action]
           s == getSuccessor(heap, tmpl, node, action, Main)
       IN IF p.raised
          THEN Abort(p.err, calls, p.state, p.tinfo, ex.outcome) /\ action = ""
          ELSE /\ action = p.action
               /\ node.kind \in {"start", "mcp"} => action \in abstractActions(node)
               /\ IF isSuspend(action)
                  THEN /\ shared' = [shared EXCEPT ![Main] = pausedState(@, heap, node)]
                       /\ pc' = [pc EXCEPT ![Main] = "idle"]
                       /\ cur' = [cur EXCEPT ![Main] = NoCur]
                       /\ clone' = [clone EXCEPT ![Main] = NoNode]
                       /\ heap' = Collect(heap, [clone EXCEPT ![Main] = NoNode])
                       /\ ex' = [ex EXCEPT !.pos = "returned", !.calls = calls,
                                           !.state = p.state, !.tinfo = p.tinfo,
                                           !.prepResult = NoPrep, !.execResult = NoResult,
                                           !.out = flowResult(p.state)]
                  ELSE IF s.found
                  THEN /\ cur' = [cur EXCEPT ![Main] = CloneOf(s.of)]
                       /\ clone' = [clone EXCEPT ![Main] = s.node]
                       /\ heap' = s.heap
                       /\ pc' = [pc EXCEPT ![Main] = "loop"]
                       /\ ex' = [ex EXCEPT !.calls = Append(calls, Call(cur[Main].of, "succ")),
                                           !.state = p.state, !.tinfo = p.tinfo,
                                           !.prepResult = NoPrep, !.execResult = NoResult]
                       /\ UNCHANGED shared
                  ELSE /\ shared' = [shared EXCEPT ![Main] = completedState(@)]
                       /\ pc' = [pc EXCEPT ![Main] = "idle"]
                       /\ cur' = [cur EXCEPT ![Main] = NoCur]
                       /\ clone' = [clone EXCEPT ![Main] = NoNode]
                       /\ heap' = Collect(heap, [clone EXCEPT ![Main] = NoNode])
                       /\ ex' = [ex EXCEPT !.pos = "returned",
                                           !.calls = Append(calls, Call(cur[Main].of, "succ")),
                                           !.state = p.state, !.tinfo = p.tinfo,
                                           !.prepResult = NoPrep, !.execResult = NoResult,
                                           !.out = flowResult(p.state)]
               /\ UNCHANGED <<desc, wiring, bpc, berr, tmpl, flow, hist>>

NextExec ==
    \/ Build
    \/ ConvertRaised
    \/ FlowRunEnter
    \/ BeginNode(Main)
    \/ \E cfg \in PrepOutcomes : NodePrep(cfg)
    \/ \E o \in ModelOutcomes \cup {NoOutcome} : NodeExec(o)
    \/ \E action \in PostActions \cup {"", "t-mcp"} : NodePost(action)

SpecExec == InitExec /\ [][NextExec]_vars

\* The initialState objects of a resumed call: those of a flow with an id
\* and an empty message history, with or without a trackingInfo object
ResumedStates == {s \in InitialStates : s.flowId /\ s.messages = <<>>}

\* executeFlow is called with an initialState that carries the currentNodeId
\* a paused run persisted (the spread copies it into the shared state), or
\* none
ResumedCall ==
    /\ wiring = "converter"
    /\ bpc = "input"
    /\ berr = ""
    /\ tmpl = <<>>
    /\ flow = NoFlow
    /\ heap = EmptyHeap
    /\ clone = [r \in Runs |-> NoNode]
    /\ pc = [r \in Runs |-> "idle"]
    /\ cur = [r \in Runs |-> NoCur]
    /\ hist = [r \in Runs |-> NoHist]
    /\ \E initialState \in ResumedStates, feature \in BOOLEAN,
          currentNodeId \in Ids \cup {NoId} :
          /\ shared = [r \in Runs |-> IF r = Main
                                      THEN [currentNodeId |-> currentNodeId]
                                      ELSE NewShared]
          /\ ex = [pos |-> "called",
                   feature |-> feature,
                   initialState |-> initialState,
                   state |-> NoState,
                   tinfo |-> IF initialState.trackingInfo
                             THEN NewTrackingInfo ELSE NoTrackingInfo,
                   prepResult |-> NoPrep,
                   execResult |-> NoResult,
                   outcome |-> NoOutcome,
                   out |-> NoOut,
                   err |-> NoErr,
                   calls |-> <<>>,
                   entered |-> currentNodeId]

InitResumed == desc \in ExecDescs /\ ResumedCall

SpecResumed == InitResumed /\ [][NextExec]_vars

-----------------------------------------------------------------------------
(* Calls on acyclic graphs *)

\* The nodes reached from the set S in at most k more steps along the edges
RECURSIVE ReachIn(_, _, _)
ReachIn(edges, S, k) ==
    IF k = 0 THEN S
    ELSE ReachIn(edges,
                 S \cup {edges[i].target :
                            i \in {j \in 1..Len(edges) : edges[j].source \in S}},
                 k - 1)

\* No node of the description reaches itself
Acyclic(edges) ==
    \A n \in Ids :
        n \notin ReachIn(edges,
                         {edges[i].target :
                            i \in {j \in 1..Len(edges) : edges[j].source = n}},
                         Cardinality(Ids))

\* The acyclic ones among the graphs over start node A and a second node B
\* of any type, wired by some of these edges in some order
AcyclicDescs ==
    {d \in [nodes : {<<[id |-> "A", type |-> "start"], [id |-> "B", type |-> t]>> :
                        t \in ExecTypes},
            edges : {es \in SeqsUpTo(ExecEdges \cup
                                        {[id |-> "e2", source |-> "A", target |-> "B"]},
                                     MaxExecEdges) :
                        \A i, j \in 1..Len(es) : es[i] = es[j] => i = j}] :
        Acyclic(d.edges)}

\* The number of nodes on the longest path of the built graph that begins
\* at node n
RECURSIVE LongestFrom(_, _)
LongestFrom(t, n) ==
    LET next == {LongestFrom(t, t[n].successors[i].target) :
                    i \in 1..Len(t[n].successors)}
    IN 1 + (IF next = {} THEN 0 ELSE CHOOSE m \in next : \A k \in next : k <= m)

InitAcyclic == desc \in AcyclicDescs /\ ResumedCall

\* The phases of a node terminate: a call that can take its next step
\* takes it
NodeSteps ==
    \/ BeginNode(Main)
    \/ \E cfg \in PrepOutcomes : NodePrep(cfg)
    \/ \E o \in ModelOutcomes \cup {NoOutcome} : NodeExec(o)
    \/ \E action \in PostActions \cup {"", "t-mcp"} : NodePost(action)

SpecAcyclic == InitAcyclic /\ [][NextExec]_vars /\ WF_vars(NodeSteps)

-----------------------------------------------------------------------------
(* BatchFlow.run: the graph is orchestrated once per parameter tuple        *)

MaxTuples == 3      \* parameter tuples a BatchFlow's prep yields

\* The result orchestrate returns: it has no return statement
NoReturnValue == "undefined"

\* A loop that stops after the first tuple
batchPendingOnce(n, resultList) == n > 0 /\ Len(resultList) < 1

\* for (const prepResult of prepResultList): tuples are left to run
batchPending(n, resultList) == Len(resultList) < n

\* BatchFlow.run(sharedState) is called on a Flow built by the converter,
\* whose per-node table holds the params of every node
InitBatch ==
    /\ desc \in [nodes : {FlowNodes},
                 edges : {es \in SeqsUpTo(ExecEdges, MaxExecEdges) :
                             \A i, j \in 1..Len(es) : es[i] = es[j] => i = j}]
    /\ wiring = "converter"
    /\ bpc = "input"
    /\ berr = ""
    /\ tmpl = <<>>
    /\ flow = NoFlow
    /\ heap = EmptyHeap
    /\ clone = [r \in Runs |-> NoNode]
    /\ pc = [r \in Runs |-> "idle"]
    /\ cur = [r \in Runs |-> NoCur]
    /\ shared = [r \in Runs |-> NewShared]
    /\ hist = [r \in Runs |-> NoHist]
    /\ ex = [pos |-> "called", n |-> 0, invocations |-> <<>>,
             execResult |-> <<>>, action |-> ""]

\* prepResultList = await this.prep(sharedState): n parameter tuples
BatchPrep(n) ==
    /\ ex.pos = "called"
    /\ bpc = "returned"
    /\ ex' = [ex EXCEPT !.pos = "loop", !.n = n]
    /\ UNCHANGED <<desc, wiring, bpc, berr, tmpl, flow, heap, clone, pc, cur, shared, hist>>

\* this.orchestrate(sharedState, prepResult, this.flow_params.nodeParams)
\* for the next tuple, up to the loop of orchestrate
BatchOrchestrate ==
    /\ ex.pos = "loop"
    /\ batchPending(ex.n, ex.execResult)
    /\ pc[Main] = "idle"
    /\ LET e == entryNode(heap, tmpl, flow, Main, shared[Main].currentNodeId)
           cl == [clone EXCEPT ![Main] = e.node]
       IN /\ cur' = [cur EXCEPT ![Main] = e.cur]
          /\ clone' = cl
          /\ heap' = Collect(e.heap, cl)
    /\ pc' = [pc EXCEPT ![Main] = "loop"]
    /\ hist' = [hist EXCEPT ![Main] =
                   [NoHist EXCEPT !.entry = shared[Main].currentNodeId,
                                  !.outcome = "running"]]
    /\ ex' = [ex EXCEPT !.pos = "orchestrating",
                        !.invocations =
                            Append(@, [tuple |-> Len(ex.execResult) + 1,
                                       entered |-> shared[Main].currentNodeId,
                                       left |-> NoId,
                                       outcome |-> "running"])]
    /\ UNCHANGED <<desc, wiring, bpc, berr, tmpl, flow, shared>>

\* orchestrate returned: resultPromises.push(result)
BatchCollect ==
    /\ ex.pos = "orchestrating"
    /\ pc[Main] = "idle"
    /\ ex' = [ex EXCEPT !.pos = "loop",
                        !.execResult = Append(@, NoReturnValue),
                        !.invocations[Len(ex.invocations)].left =
                            shared[Main].currentNodeId,
                        !.invocations[Len(ex.invocations)].outcome =
                            hist[Main].outcome]
    /\ UNCHANGED <<desc, wiring, bpc, berr, tmpl, flow, heap, clone, pc, cur, shared, hist>>

\* The loop is over: post, then return {action, prepResult, execResult}
BatchReturn ==
    /\ ex.pos = "loop"
    /\ ~batchPending(ex.n, ex.execResult)
    /\ ex' = [ex EXCEPT !.pos = "returned", !.action = DEFAULT_ACTION]
    /\ UNCHANGED <<desc, wiring, bpc, berr, tmpl, flow, heap, clone, pc, cur, shared, hist>>

NextBatch ==
    \/ Build
    \/ \E n \in 0..MaxTuples : BatchPrep(n)
    \/ BatchOrchestrate
    \/ BeginNode(Main)
    \/ Prep(Main)
    \/ Exec(Main)
    \/ \E action \in PostActions : Post(Main, action)
    \/ BatchCollect
    \/ BatchReturn

SpecBatch == InitBatch /\ [][NextBatch]_vars

-----------------------------------------------------------------------------
(* RetryNode: node.run with the bounded attempt loop around execCore        *)

MaxRetries == 3     \* the largest maxRetries a RetryNode is constructed with

\* What one call of execCore comes to: a result, or an error thrown
ExecValues == {"v1", "v2"}
ExecErrors == {"timeout", "refused"}

AttemptOutcomes ==
    [raised : {FALSE}, value : ExecValues] \cup [raised : {TRUE}, value : ExecErrors]

\* A loop that makes one attempt more
retryPendingInclusive(i, maxRetries) == i <= maxRetries

\* for (let i = 0; i < this.maxRetries; i++)
retryPending(i, maxRetries) == i < maxRetries

\* No graph is involved
NoGraph ==
    /\ desc = [nodes |-> <<>>, edges |-> <<>>]
    /\ wiring = "manual"
    /\ bpc = "input"
    /\ berr = ""
    /\ tmpl = <<>>
    /\ flow = NoFlow
    /\ heap = EmptyHeap
    /\ clone = [r \in Runs |-> NoNode]
    /\ pc = [r \in Runs |-> "idle"]
    /\ cur = [r \in Runs |-> NoCur]
    /\ shared = [r \in Runs |-> NewShared]
    /\ hist = [r \in Runs |-> NoHist]

\* node.run(sharedState) is called on a RetryNode built with maxRetries
InitRetry ==
    /\ NoGraph
    /\ \E maxRetries \in 0..MaxRetries :
          ex = [pos |-> "run", maxRetries |-> maxRetries, i |-> 0, attempts |-> <<>>,
                execResult |-> "", err |-> "", action |-> ""]

\* run: prep, then execWrapper is entered
RetryPrep ==
    /\ ex.pos = "run"
    /\ ex' = [ex EXCEPT !.pos = "attempt"]
    /\ UNCHANGED <<desc, wiring, bpc, berr, tmpl, flow, heap, clone, pc, cur, shared, hist>>

\* One pass of the loop: execCore returns (execWrapper returns its result)
\* or throws (the error is logged, the delay begins)
RetryAttempt(o) ==
    /\ ex.pos = "attempt"
    /\ retryPending(ex.i, ex.maxRetries)
    /\ ex' = IF o.raised
             THEN [ex EXCEPT !.pos = "delay", !.attempts = Append(@, o)]
             ELSE [ex EXCEPT !.pos = "post", !.attempts = Append(@, o),
                             !.execResult = o.value]
    /\ UNCHANGED <<desc, wiring, bpc, berr, tmpl, flow, heap, clone, pc, cur, shared, hist>>

\* The delay is over: i++
RetryDelay ==
    /\ ex.pos = "delay"
    /\ ex' = [ex EXCEPT !.pos = "attempt", !.i = @ + 1]
    /\ UNCHANGED <<desc, wiring, bpc, berr, tmpl, flow, heap, clone, pc, cur, shared, hist>>

\* The loop is over: throw new Error("Max retries reached ..."), out of run
RetryExhausted ==
    /\ ex.pos = "attempt"
    /\ ~retryPending(ex.i, ex.maxRetries)
    /\ ex' = [ex EXCEPT !.pos = "raised", !.err = "Max retries reached"]
    /\ UNCHANGED <<desc, wiring, bpc, berr, tmpl, flow, heap, clone, pc, cur, shared, hist>>

\* run: post returns an action and run returns
RetryPost(action) ==
    /\ ex.pos = "post"
    /\ ex' = [ex EXCEPT !.pos = "returned", !.action = action]
    /\ UNCHANGED <<desc, wiring, bpc, berr, tmpl, flow, heap, clone, pc, cur, shared, hist>>

NextRetry ==
    \/ RetryPrep
    \/ \E o \in AttemptOutcomes : RetryAttempt(o)
    \/ RetryDelay
    \/ RetryExhausted
    \/ \E action \in PostActions : RetryPost(action)

SpecRetry == InitRetry /\ [][NextRetry]_vars

-----------------------------------------------------------------------------
(* A Flow used as a node: Flow.run, and Flow.execCore called directly       *)

\* The steps of run of a node whose class does not override it
runStepsBase == <<"prep", "execCore", "post">>

\* The steps of Flow.run: prep, orchestrate, post
runSteps == <<"prep", "orchestrate", "post">>

\* Flow.execCore(prepResult)
flowExecCore(prepResult) ==
    [raised |-> TRUE, err |-> "Flow node does not support direct execution"]

\* Flow.post(...)
flowPost == DEFAULT_ACTION

\* The successor map of the nested Flow in the outer flow: none, or the
\* outer node X under the default action or under an edge id
OuterSuccessors ==
    {<<>>, <<[action |-> DEFAULT_ACTION, target |-> "X"]>>,
     <<[action |-> "e1", target |-> "X"]>>}

\* The outer orchestrate calls run(sharedState) on its start node, a Flow
\* built by the converter
InitNested ==
    /\ desc \in [nodes : {FlowNodes},
                 edges : {es \in SeqsUpTo(ExecEdges, MaxExecEdges) :
                             \A i, j \in 1..Len(es) : es[i] = es[j] => i = j}]
    /\ wiring = "converter"
    /\ bpc = "input"
    /\ berr = ""
    /\ tmpl = <<>>
    /\ flow = NoFlow
    /\ heap = EmptyHeap
    /\ clone = [r \in Runs |-> NoNode]
    /\ pc = [r \in Runs |-> "idle"]
    /\ cur = [r \in Runs |-> NoCur]
    /\ shared = [r \in Runs |-> NewShared]
    /\ hist = [r \in Runs |-> NoHist]
    /\ \E successors \in OuterSuccessors :
          ex = [pos |-> "run", calls |-> <<>>, action |-> "", err |-> "",
                direct |-> "none", outerSuccessors |-> successors,
                outer |-> "nested", outerRan |-> <<>>]

\* The next step of Flow.run
FlowRunStep ==
    /\ bpc = "returned"
    /\ ex.pos = "run"
    /\ pc[Main] = "idle"
    /\ LET step == runSteps[Len(ex.calls) + 1]
           calls == Append(ex.calls, step)
           x == flowExecCore("prepResult")
           e == entryNode(heap, tmpl, flow, Main, shared[Main].currentNodeId)
           cl == [clone EXCEPT ![Main] = e.node]
       IN IF step = "orchestrate"
          THEN /\ cur' = [cur EXCEPT ![Main] = e.cur]
               /\ clone' = cl
               /\ heap' = Collect(e.heap, cl)
               /\ pc' = [pc EXCEPT ![Main] = "loop"]
               /\ hist' = [hist EXCEPT ![Main] =
                              [NoHist EXCEPT !.entry = shared[Main].currentNodeId,
                                             !.outcome = "running"]]
               /\ ex' = [ex EXCEPT !.calls = calls]
          ELSE /\ ex' = IF step = "execCore" /\ x.raised
                        THEN [ex EXCEPT !.calls = calls, !.pos = "raised", !.err = x.err]
                        ELSE IF step = "post"
                        THEN [ex EXCEPT !.calls = calls, !.pos = "returned",
                                        !.action = flowPost]
                        ELSE [ex EXCEPT !.calls = calls]
               /\ UNCHANGED <<heap, clone, pc, cur, hist>>
    /\ UNCHANGED <<desc, wiring, bpc, berr, tmpl, flow, shared>>

\* A caller invokes execCore of the Flow directly
FlowExecCoreDirect ==
    /\ ex.pos \in {"run", "returned"}
    /\ ex.direct = "none"
    /\ ex' = [ex EXCEPT !.direct = IF flowExecCore("prepResult").raised
                                   THEN "raised" ELSE "returned"]
    /\ UNCHANGED <<desc, wiring, bpc, berr, tmpl, flow, heap, clone, pc, cur, shared, hist>>

\* The outer orchestrate after run of the nested Flow returned its action:
\* pause, move to the successor, or complete
OuterResolve ==
    /\ ex.pos = "returned"
    /\ ex.outer = "nested"
    /\ IF isSuspend(ex.action)
       THEN /\ ex' = [ex EXCEPT !.outer = "paused"]
            /\ shared' = [shared EXCEPT ![Main].currentNodeId = "N"]
       ELSE IF Has(ex.outerSuccessors, ex.action)
       THEN /\ ex' = [ex EXCEPT !.outer = "node"]
            /\ UNCHANGED shared
       ELSE /\ ex' = [ex EXCEPT !.outer = "completed"]
            /\ shared' = [shared EXCEPT ![Main] = completedState(@)]
    /\ UNCHANGED <<desc, wiring, bpc, berr, tmpl, flow, heap, clone, pc, cur, hist>>

\* The outer node X, which has no successor, runs and returns `action`
OuterNode(action) ==
    /\ ex.outer = "node"
    /\ ex' = [ex EXCEPT !.outer = IF isSuspend(action) THEN "paused" ELSE "completed",
                        !.outerRan = Append(@, "X")]
    /\ shared' = IF isSuspend(action)
                 THEN [shared EXCEPT ![Main].currentNodeId = "X"]
                 ELSE [shared EXCEPT ![Main] = completedState(@)]
    /\ UNCHANGED <<desc, wiring, bpc, berr, tmpl, flow, heap, clone, pc, cur, hist>>

NextNested ==
    \/ Build
    \/ FlowRunStep
    \/ OuterResolve
    \/ \E action \in {DEFAULT_ACTION, STAY_ON_NODE_ACTION} : OuterNode(action)
    \/ BeginNode(Main)
    \/ Prep(Main)
    \/ Exec(Main)
    \/ \E action \in PostActions : Post(Main, action)
    \/ FlowExecCoreDirect

SpecNested == InitNested /\ [][NextNested]_vars

-----------------------------------------------------------------------------
(* One node step (prep, execCore, post) on any shared state                 *)

MaxHistory == 2      \* messages in the history a step starts from
MaxStepEdges == 2    \* outgoing edges of the node of the step

\* The histories a step can find: system messages of earlier steps, user
\* and assistant messages, in any order
StepMessages == {Msg("system", "old"), Msg("user", "hi"), Msg("assistant", "done")}

StepHistories == SeqsUpTo(StepMessages, MaxHistory)

\* The outgoing edges of the node: flow-control edges, whose ids are free
\* (the id is the action name), and tool-binding edges, named as the editor
\* names them
StepEdges ==
    [id : {"e1", "e2", "out-mcp"}, binding : {FALSE}]
        \cup [id : {"t-mcp", "t-mcpEdge"}, binding : {TRUE}]

StepEdgeLists ==
    {es \in SeqsUpTo(StepEdges, MaxStepEdges) :
        \A i, j \in 1..Len(es) : es[i].id = es[j].id => i = j}

\* The successor map the converter builds from the edges, in their order
stepNode(edges) ==
    [successors |-> [i \in 1..Len(edges) |-> [action |-> edges[i].id]]]

StepKinds == {"process", "finish", "flow", "batch"}

\* A prep that stores the reordered history
prepOfStoring(kind, state, nodeId, cfg) ==
    LET p == processPrep(state, nodeId, cfg)
    IN IF kind = "process"
       THEN [raised |-> p.raised, err |-> p.err, prep |-> p.prep,
             state |-> [state EXCEPT !.messages = p.prep.messages]]
       ELSE [raised |-> FALSE, err |-> NoErr, prep |-> NoPrep, state |-> state]

\* prep of a node kind: [raised, err, prep, state], state being the shared
\* state after the call.  Flow.prep returns {} and BatchFlow.prep returns []
prepOf(kind, state, nodeId, cfg) ==
    LET p == processPrep(state, nodeId, cfg)
    IN IF kind = "process"
       THEN [raised |-> p.raised, err |-> p.err, prep |-> p.prep, state |-> state]
       ELSE IF kind = "finish"
       THEN [raised |-> FALSE, err |-> NoErr, prep |-> finishPrep(state, nodeId),
             state |-> state]
       ELSE [raised |-> FALSE, err |-> NoErr, prep |-> NoPrep, state |-> state]

\* node.run(sharedState) is called on a node of some kind
InitStep ==
    /\ NoGraph
    /\ \E kind \in StepKinds, messages \in StepHistories,
          lastResponse \in {NoResponse, Text("earlier")},
          tracking \in BOOLEAN, edges \in StepEdgeLists :
          LET state == [flowId |-> TRUE, messages |-> messages,
                        lastResponse |-> lastResponse, nodeExecutionTracker |-> <<>>]
              tinfo == IF tracking THEN NewTrackingInfo ELSE NoTrackingInfo
          IN ex = [pos |-> "run", kind |-> kind, edges |-> edges,
                   state0 |-> state, state |-> state,
                   tinfo0 |-> tinfo, tinfo |-> tinfo,
                   prepResult |-> NoPrep, execResult |-> NoResult,
                   outcome |-> NoOutcome, action |-> "", err |-> NoErr]

\* run: prep
StepPrep(cfg) ==
    /\ ex.pos = "run"
    /\ ex.kind # "process" => cfg = "ok"
    /\ LET p == prepOf(ex.kind, ex.state, "B", cfg)
       IN ex' = [ex EXCEPT !.pos = IF p.raised THEN "raised" ELSE "prepped",
                           !.err = p.err, !.prepResult = p.prep, !.state = p.state]
    /\ UNCHANGED <<desc, wiring, bpc, berr, tmpl, flow, heap, clone, pc, cur, shared, hist>>

\* run: execWrapper, execCore of a process node
StepExec(o) ==
    /\ ex.pos = "prepped"
    /\ ex.kind = "process"
    /\ LET x == processExecCore(ex.prepResult, o)
       IN ex' = [ex EXCEPT !.pos = IF x.raised THEN "raised" ELSE "executed",
                           !.err = x.err, !.execResult = x.result, !.outcome = o]
    /\ UNCHANGED <<desc, wiring, bpc, berr, tmpl, flow, heap, clone, pc, cur, shared, hist>>

\* run: post of a process node
StepPost ==
    /\ ex.pos = "executed"
    /\ LET p == processPost(ex.state, ex.tinfo, stepNode(ex.edges), "B",
                            ex.prepResult, ex.execResult)
       IN ex' = [ex EXCEPT !.pos = IF p.raised THEN "raised" ELSE "posted",
                           !.err = p.err, !.state = p.state, !.tinfo = p.tinfo,
                           !.action = p.action]
    /\ UNCHANGED <<desc, wiring, bpc, berr, tmpl, flow, heap, clone, pc, cur, shared, hist>>

NextStep ==
    \/ \E cfg \in PrepOutcomes : StepPrep(cfg)
    \/ \E o \in ModelOutcomes : StepExec(o)
    \/ StepPost

SpecStep == InitStep /\ [][NextStep]_vars

-----------------------------------------------------------------------------
(* The chat-completions route: checkRateLimit and handleRequest             *)

MaxMinutes == 1      \* the clock runs over the minutes 0..MaxMinutes
MaxCounted == 62     \* the counts of the records add up to at most this

\* const RATE_LIMIT = 6000; // requests per minute
RATE_LIMIT == 6000

\* "Default limit: 60 requests per minute per IP address"
DocumentedLimit == 60

\* The length of a window in milliseconds
WindowMs == 60000

\* The values of Date.now(): the start, and the last millisecond of each
\* minute and the first of the next
Instants == {0} \cup {m * WindowMs - d : m \in 1..MaxMinutes, d \in {0, 1}}

\* The x-forwarded-for header of a request ("" when it is absent)
ForwardedFor == {"", "10.0.0.1"}

\* request.headers.get('x-forwarded-for') || 'unknown'
clientIp(header) == IF header = "" THEN "unknown" ELSE header

Ips == {clientIp(h) : h \in ForwardedFor}

NoRecord == [present |-> FALSE, count |-> 0, resetTime |-> 0]

\* Math.floor(now / 60000) * 60000 + 60000
nextBoundary(now) == (now \div WindowMs) * WindowMs + WindowMs

\* checkRateLimit(ip) at Date.now() = now: [allowed, requestCounts]
checkRateLimit(requestCounts, ip, now) ==
    IF ~requestCounts[ip].present \/ requestCounts[ip].resetTime < now
    THEN [allowed |-> TRUE,
          requestCounts |-> [requestCounts EXCEPT ![ip] =
              [present |-> TRUE, count |-> 1, resetTime |-> nextBoundary(now)]]]
    ELSE IF requestCounts[ip].count >= RATE_LIMIT
    THEN [allowed |-> FALSE, requestCounts |-> requestCounts]
    ELSE [allowed |-> TRUE,
          requestCounts |-> [requestCounts EXCEPT ![ip].count = @ + 1]]

\* What processChatCompletion comes to: a response with a status, or an error
ProcessOutcomes == [thrown : {FALSE}, status : {200}] \cup [thrown : {TRUE}, status : {500}]

\* The sum of the counts of the records
RECURSIVE Counted(_, _)
Counted(requestCounts, ips) ==
    IF ips = {} THEN 0
    ELSE LET ip == CHOOSE i \in ips : TRUE
         IN requestCounts[ip].count + Counted(requestCounts, ips \ {ip})

NoResponseYet == [ip |-> "", status |-> 0, parsed |-> FALSE]

\* The module is loaded: requestCounts = new Map()
InitRate ==
    /\ NoGraph
    /\ ex = [pos |-> "serving", now |-> 0,
             requestCounts |-> [ip \in Ips |-> NoRecord],
             last |-> NoResponseYet]

\* Time passes
Tick(t) ==
    /\ ex.pos = "serving"
    /\ t > ex.now
    /\ ex' = [ex EXCEPT !.now = t]
    /\ UNCHANGED <<desc, wiring, bpc, berr, tmpl, flow, heap, clone, pc, cur, shared, hist>>

\* handleRequest(request): the rate check, then 429, or parsing and
\* processing (a thrown error is answered with 500)
HandleRequest(header, o) ==
    /\ ex.pos = "serving"
    /\ LET ip == clientIp(header)
           c == checkRateLimit(ex.requestCounts, ip, ex.now)
       IN /\ Counted(c.requestCounts, Ips) <= MaxCounted
          /\ ex' = [ex EXCEPT
                       !.requestCounts = c.requestCounts,
                       !.last = IF c.allowed
                                THEN [ip |-> ip, status |-> o.status, parsed |-> TRUE]
                                ELSE [ip |-> ip, status |-> 429, parsed |-> FALSE]]
    /\ UNCHANGED <<desc, wiring, bpc, berr, tmpl, flow, heap, clone, pc, cur, shared, hist>>

NextRate ==
    \/ \E t \in Instants : Tick(t)
    \/ \E header \in ForwardedFor, o \in ProcessOutcomes : HandleRequest(header, o)

SpecRate == InitRate /\ [][NextRate]_vars

-----------------------------------------------------------------------------
(* ProcessNodeUtility.processToolCalls                                      *)

MaxToolCalls == 3    \* tool calls of one model response

\* A tool name is kept as what name.split('_-_-_') makes of it: the name
\* "_-_-_srv_-_-_tool" splits into three parts, "srv_-_-_tool" into two
ToolNames == {<<"", "srv", "tool">>, <<"srv", "tool">>}

\* The tool calls of a response: id, function name, and whether
\* JSON.parse accepts the arguments string
ToolCalls == [id : {"c1", "c2"}, name : ToolNames, parsable : BOOLEAN]

\* What mcpService.callTool comes to: a result with data, a result with an
\* error, or an exception
Invocations == {"data", "failed", "thrown"}

ToolMsg(id, content) == [role |-> "tool", tool_call_id |-> id, content |-> content]
FollowUp == [role |-> "user", tool_call_id |-> "", content |-> "result of the tool call"]

\* A loop body that drops a call it cannot make
toolCallMessagesSkip(toolCall, inv) ==
    IF ~toolCall.parsable \/ Len(toolCall.name) # 3 \/ inv = "thrown"
    THEN <<>>
    ELSE <<ToolMsg(toolCall.id, IF inv = "data" THEN "data" ELSE "Error"), FollowUp>>

\* The body of the loop for one tool call: the messages it pushes.  What is
\* thrown inside the try becomes a tool message with the content "Error: ..."
toolCallMessages(toolCall, inv) ==
    IF ~toolCall.parsable \/ Len(toolCall.name) # 3 \/ inv = "thrown"
    THEN <<ToolMsg(toolCall.id, "Error")>>
    ELSE <<ToolMsg(toolCall.id, IF inv = "data" THEN "data" ELSE "Error"), FollowUp>>

\* Whether the loop body reaches mcpService.callTool
Invokes(toolCall) == toolCall.parsable /\ Len(toolCall.name) = 3

\* processToolCalls(response) is called
InitTools ==
    /\ NoGraph
    /\ \E toolCalls \in SeqsUpTo(ToolCalls, MaxToolCalls) :
          ex = [pos |-> "called", toolCalls |-> toolCalls, i |-> 1,
                invocations |-> <<>>, newMessages |-> <<>>]

\* No tool calls: return []
ToolsNone ==
    /\ ex.pos = "called"
    /\ Len(ex.toolCalls) = 0
    /\ ex' = [ex EXCEPT !.pos = "returned"]
    /\ UNCHANGED <<desc, wiring, bpc, berr, tmpl, flow, heap, clone, pc, cur, shared, hist>>

\* One iteration of the for loop
ToolCallStep(inv) ==
    /\ ex.pos \in {"called", "loop"}
    /\ ex.i <= Len(ex.toolCalls)
    /\ LET toolCall == ex.toolCalls[ex.i]
       IN /\ inv = "none" <=> ~Invokes(toolCall)
          /\ ex' = [ex EXCEPT !.pos = "loop", !.i = @ + 1,
                              !.invocations = Append(@, inv),
                              !.newMessages = @ \o toolCallMessages(toolCall, inv)]
    /\ UNCHANGED <<desc, wiring, bpc, berr, tmpl, flow, heap, clone, pc, cur, shared, hist>>

\* The loop is over: return newMessages
ToolsReturn ==
    /\ ex.pos = "loop"
    /\ ex.i > Len(ex.toolCalls)
    /\ ex' = [ex EXCEPT !.pos = "returned"]
    /\ UNCHANGED <<desc, wiring, bpc, berr, tmpl, flow, heap, clone, pc, cur, shared, hist>>

NextTools ==
    \/ ToolsNone
    \/ \E inv \in Invocations \cup {"none"} : ToolCallStep(inv)
    \/ ToolsReturn

SpecTools == InitTools /\ [][NextTools]_vars

-----------------------------------------------------------------------------
(* The resume search of orchestrate, one action per pass of its loop *)

MaxEnqueued == 3    \* pushes of one node a search is followed for
MaxSearchEdges == 3 \* edge descriptors of the graphs searched

\* The graphs searched: start node A and node B, wired by some of these
\* edges in some order: forward, back to the start, self-loops
SearchEdges ==
    {[id |-> "e1", source |-> "A", target |-> "B"],
     [id |-> "e1", source |-> "B", target |-> "A"],
     [id |-> "e2", source |-> "A", target |-> "A"],
     [id |-> "e2", source |-> "B", target |-> "B"]}

SearchDescs ==
    [nodes : {FlowNodes},
     edges : {es \in SeqsUpTo(SearchEdges, MaxSearchEdges) :
                 \A i, j \in 1..Len(es) : es[i] = es[j] => i = j}]

\* The ids a search looks for: those of the description and one of no node
SearchIds == Ids \cup {"X"}

\* How often each node was pushed on the queue
Pushed(queue) ==
    [n \in Ids |-> Cardinality({i \in 1..Len(queue) : queue[i].of = n})]

\* A graph is at hand; orchestrate is about to be called on a shared state
\* with a currentNodeId
InitSearch ==
    /\ desc \in SearchDescs
    /\ wiring \in {"converter", "manual"}
    /\ bpc = "input"
    /\ berr = ""
    /\ tmpl = <<>>
    /\ flow = NoFlow
    /\ heap = EmptyHeap
    /\ clone = [r \in Runs |-> NoNode]
    /\ pc = [r \in Runs |-> "idle"]
    /\ cur = [r \in Runs |-> NoCur]
    /\ shared = [r \in Runs |-> NewShared]
    /\ hist = [r \in Runs |-> NoHist]
    /\ ex = [pos |-> "idle", queue |-> <<>>, visited |-> {},
             pushed |-> [n \in Ids |-> 0], passes |-> 0, found |-> NoCur]

\* orchestrate is entered with a currentNodeId: startNode is cloned,
\* queue = [startNode], visited = new Set()
SearchEnter(currentNodeId) ==
    /\ ex.pos = "idle"
    /\ bpc = "returned"
    /\ LET g == getStartNode(heap, tmpl, flow, Main)
       IN /\ clone' = [clone EXCEPT ![Main] = g.node]
          /\ heap' = g.heap
    /\ shared' = [shared EXCEPT ![Main].currentNodeId = currentNodeId]
    /\ ex' = [ex EXCEPT !.pos = "searching",
                        !.queue = <<CloneOf(flow.start)>>,
                        !.pushed = Pushed(<<CloneOf(flow.start)>>)]
    /\ UNCHANGED <<desc, wiring, bpc, berr, tmpl, flow, pc, cur, hist>>

\* One pass of the while loop: shift a node, compare its id, push its
\* successors
SearchPass ==
    /\ ex.pos = "searching"
    /\ ex.queue # <<>>
    /\ \A n \in Ids : ex.pushed[n] <= MaxEnqueued
    /\ LET c == Head(ex.queue)
           node == Deref(tmpl, clone, Main, c)
           e == Enqueue(tmpl, heap, node.successors, 1, Tail(ex.queue), ex.visited)
           added == SubSeq(e.queue, Len(ex.queue), Len(e.queue))
       IN IF heap[node.np].id = shared[Main].currentNodeId
          THEN ex' = [ex EXCEPT !.pos = "found", !.found = c,
                                !.queue = Tail(@), !.passes = @ + 1]
          ELSE ex' = [ex EXCEPT !.queue = e.queue, !.visited = e.visited,
                                !.passes = @ + 1,
                                !.pushed = [n \in Ids |-> @[n] + Pushed(added)[n]]]
    /\ UNCHANGED <<desc, wiring, bpc, berr, tmpl, flow, heap, clone, pc, cur, shared, hist>>

\* The queue is empty and nothing matched: currentNode = getStartNode()
SearchFallback ==
    /\ ex.pos = "searching"
    /\ ex.queue = <<>>
    /\ ex' = [ex EXCEPT !.pos = "fallback", !.found = CloneOf(flow.start)]
    /\ UNCHANGED <<desc, wiring, bpc, berr, tmpl, flow, heap, clone, pc, cur, shared, hist>>

NextSearch ==
    \/ Build
    \/ \E currentNodeId \in SearchIds : SearchEnter(currentNodeId)
    \/ SearchPass
    \/ SearchFallback

\* The loop is synchronous code: once entered, its next pass is taken
SpecSearch ==
    InitSearch /\ [][NextSearch]_vars /\ WF_vars(SearchPass \/ SearchFallback)

-----------------------------------------------------------------------------
(* Properties of the traversal *)

\* The ids of the nodes reachable from the nodes S over the successor maps
RECURSIVE ReachFrom(_, _)
ReachFrom(t, S) ==
    LET T == S \cup {x \in DOMAIN t :
                        \E n \in S : \E i \in 1..Len(t[n].successors) :
                            t[n].successors[i].target = x}
    IN IF T = S THEN S ELSE ReachFrom(t, T)

\* An orchestrate call of r ran at least one node and has returned
Returned(r) == pc[r] = "idle" /\ hist[r].node # NoId

\* The successor map of the node last run in r's call
LastSuccessors(r) == tmpl[hist[r].node].successors

\* C1: when the node just run returned the suspend action, the call has
\* returned with currentNodeId set to that node's id, getSuccessor was not
\* called for it and no further node was run.
C1_SuspendReturnsAtOnce ==
    \A r \in Runs : hist[r].action = STAY_ON_NODE_ACTION =>
        /\ pc[r] = "idle"
        /\ shared[r].currentNodeId = hist[r].node
        /\ ~hist[r].resolved

C1_Witness ==
    \E r \in Runs :
        /\ hist[r].action = STAY_ON_NODE_ACTION
        /\ hist[r].node = "B"
        /\ shared[r].currentNodeId = "B"

\* C2 (as claimed): on a Flow built by the converter, a call entered with the
\* currentNodeId of a node reachable from the start node runs that node first.
C2_ResumesAtSavedNode ==
    \A r \in Runs :
        (/\ wiring = "converter"
         /\ Running(r) /\ hist[r].first
         /\ hist[r].entry \in ReachFrom(tmpl, {flow.start}))
        => hist[r].node = hist[r].entry

\* C3: a call that returned either paused (the last node returned the suspend
\* action and currentNodeId is its id) or completed (the last action has no
\* registered successor and currentNodeId is cleared), never both or neither.
PausedAt(r) ==
    /\ hist[r].action = STAY_ON_NODE_ACTION
    /\ shared[r].currentNodeId = hist[r].node

CompletedAt(r) ==
    /\ hist[r].action # STAY_ON_NODE_ACTION
    /\ ~Has(LastSuccessors(r), hist[r].action)
    /\ shared[r].currentNodeId = NoId

C3_PausedOrCompleted ==
    \A r \in Runs : Returned(r) => (PausedAt(r) # CompletedAt(r))

C3_Witness ==
    \E r \in Runs :
        /\ Returned(r) /\ CompletedAt(r)
        /\ hist[r].node = "B" /\ ~hist[r].first

\* C4: a fresh call runs the start node first; every later node run is the
\* target registered on the node run before it under the action that node
\* returned; and a call completes only at a node whose action has no
\* registered successor.
C4_FollowsMatchingEdges ==
    [][\A r \in Runs :
          /\ (pc[r] = "loop" /\ pc'[r] = "prep") =>
                IF hist[r].node = NoId
                THEN hist[r].entry = NoId => hist'[r].node = flow.start
                ELSE /\ Has(LastSuccessors(r), hist[r].action)
                     /\ hist'[r].node = Get(LastSuccessors(r), hist[r].action)
          /\ (pc[r] = "post" /\ pc'[r] = "idle"
                /\ hist'[r].action # STAY_ON_NODE_ACTION) =>
                ~Has(LastSuccessors(r), hist'[r].action)
          /\ (pc[r] = "post" /\ pc'[r] = "loop") =>
                Has(LastSuccessors(r), hist'[r].action)]_vars

C4_Witness ==
    \E r \in Runs :
        /\ Running(r) /\ ~hist[r].first
        /\ hist[r].node = "B"
        /\ Len(tmpl["A"].successors) = 2

\* C8 (as claimed): the node object orchestrate sets params on and runs is
\* always a clone, never an object held by the graph.
C8_RunsOnlyClones ==
    \A r \in Runs : Running(r) => cur[r].ref = "clone"

\* C7 (as claimed): a write a running clone makes to its own params changes
\* nothing that can be seen of the nodes held by the graph or of the node
\* another traversal is running.
TemplatesView == [n \in DOMAIN tmpl |-> View(heap, tmpl[n])]

InstanceView(r) == View(heap, Deref(tmpl, clone, r, cur[r]))

C7_WritesStayPrivate ==
    [][\A r \in Runs, which \in {"fp", "np"} :
          (cur[r].ref = "clone" /\ NodeWrite(r, which)) =>
              /\ TemplatesView' = TemplatesView
              /\ \A q \in Runs \ {r} :
                    Running(q) => InstanceView(q)' = InstanceView(q)]_vars

-----------------------------------------------------------------------------
(* Properties of the builder *)

NodeIds(d) == {d.nodes[i].id : i \in 1..Len(d.nodes)}

\* Both ends of the i-th edge are nodes of the description
Wired(i) ==
    /\ desc.edges[i].source \in NodeIds(desc)
    /\ desc.edges[i].target \in NodeIds(desc)

\* The action name the builder is to use for an edge
ActionOf(e) == IF e.id = "" THEN "default" ELSE e.id

\* C5 (as claimed): every edge is registered on its source under the action
\* name equal to the edge's id, and a traversal leaving the source with that
\* action turns to the edge's target.
C5_EdgeIdIsAction ==
    (wiring = "converter" /\ bpc = "returned") =>
        \A i \in 1..Len(desc.edges) :
            LET e == desc.edges[i] IN
            /\ Has(tmpl[e.source].successors, e.id)
            /\ Get(tmpl[e.source].successors, e.id) = e.target
            /\ \A r \in Runs :
                  (pc[r] = "loop" /\ hist[r].node = e.source /\ hist[r].action = e.id)
                  => cur[r].of = e.target

\* C5 (amended): every edge whose ends are nodes of the description is
\* registered on its source under the action name equal to the edge's id,
\* or "default" when the id is empty, and a traversal leaving the source
\* with that action turns to the edge's target.
C5_EdgeRegisteredUnderItsAction ==
    (wiring = "converter" /\ bpc = "returned") =>
        \A i \in 1..Len(desc.edges) :
            LET e == desc.edges[i] IN
            Wired(i) =>
                /\ Has(tmpl[e.source].successors, ActionOf(e))
                /\ Get(tmpl[e.source].successors, ActionOf(e)) = e.target
                /\ \A r \in Runs :
                      (/\ pc[r] = "loop" /\ hist[r].node = e.source
                       /\ hist[r].action = ActionOf(e))
                      => cur[r].of = e.target

C5_Witness ==
    /\ wiring = "converter"
    /\ desc.edges = <<[id |-> "e1", source |-> "A", target |-> "B"]>>
    /\ \E r \in Runs :
          /\ Running(r) /\ ~hist[r].first
          /\ hist[r].node = "B"

\* Edges i < j that ask for the same action on the same node
Clash(i, j) ==
    /\ i < j /\ Wired(i) /\ Wired(j)
    /\ desc.edges[i].source = desc.edges[j].source
    /\ ActionOf(desc.edges[i]) = ActionOf(desc.edges[j])

\* The first edge that clashes with an earlier one
FirstClash ==
    CHOOSE j \in 1..Len(desc.edges) :
        /\ \E i \in 1..Len(desc.edges) : Clash(i, j)
        /\ \A k \in 1..(j - 1) : ~\E i \in 1..Len(desc.edges) : Clash(i, k)

\* The registrations the wired edges before the j-th make on node n, in order
RegisteredBefore(n, j) ==
    LET idx == SelectSeq([k \in 1..(j - 1) |-> k],
                         LAMBDA k : Wired(k) /\ desc.edges[k].source = n)
    IN [k \in 1..Len(idx) |->
           [action |-> ActionOf(desc.edges[idx[k]]),
            target |-> desc.edges[idx[k]].target]]

\* C9 (as claimed): a description with two edges of the same id leaving the
\* same node is not built.
C9_SameIdSameSourceFails ==
    bpc # "input" =>
        ((\E i, j \in 1..Len(desc.edges) :
              /\ i < j
              /\ desc.edges[i].id = desc.edges[j].id
              /\ desc.edges[i].source = desc.edges[j].source
              /\ desc.edges[i].source \in NodeIds(desc))
         => bpc = "raised")

\* C9 (amended): registering an action a node already has raises and leaves
\* the node's successor map as it was, the earlier target still registered;
\* so a description with two edges of the same action leaving the same node
\* is not built when the ends of both edges are nodes of the description.
C9_DuplicateActionFails ==
    bpc # "input" =>
        /\ (\E i, j \in 1..Len(desc.edges) : Clash(i, j)) => bpc = "raised"
        /\ berr = "Action already exists" =>
              /\ \E i, j \in 1..Len(desc.edges) : Clash(i, j)
              /\ LET n == desc.edges[FirstClash].source
                 IN tmpl[n].successors = RegisteredBefore(n, FirstClash)

C9_Witness ==
    /\ berr = "Action already exists"
    /\ Len(tmpl[desc.edges[FirstClash].source].successors) = 1

\* C10 (as claimed): convert returns a Flow only when the description has
\* exactly one node of type start (stated for descriptions whose node ids
\* are distinct).
C10_ExactlyOneStart ==
    (/\ bpc = "returned"
     /\ \A i, j \in 1..Len(desc.nodes) : desc.nodes[i].id = desc.nodes[j].id => i = j)
    => Cardinality({i \in 1..Len(desc.nodes) : desc.nodes[i].type = "start"}) = 1

-----------------------------------------------------------------------------
(* Properties of cloning *)

\* C6: whatever is written into the params of the clone c1 and whatever is
\* registered on it, the template and the clone c2 show what the template
\* showed when it was constructed.
C6_ClonesAreIndependent ==
    /\ View(heap, tmpl["A"]) = desc
    /\ clone["r2"] # NoNode => View(heap, clone["r2"]) = desc

C6_Witness ==
    /\ clone["r1"] # NoNode /\ clone["r2"] # NoNode
    /\ View(heap, clone["r1"]).fp.prop # desc.fp.prop
    /\ View(heap, clone["r1"]).np.id # desc.np.id
    /\ Len(clone["r1"].successors) > Len(desc.successors)

-----------------------------------------------------------------------------
(* Properties of the run facade and of the node kinds *)

LastCall == ex.calls[Len(ex.calls)]

\* The type the description gives the node of an id
TypeOf(id) ==
    desc.nodes[CHOOSE i \in 1..Len(desc.nodes) : desc.nodes[i].id = id].type

\* The tracker entries the post calls of a call sequence append: one per
\* process node, one per finish node when the tracker feature is on
RECURSIVE PostEntries(_)
PostEntries(calls) ==
    IF calls = <<>> THEN <<>>
    ELSE LET c == Head(calls)
             entry == IF c.phase = "post" /\ TypeOf(c.node) = "process"
                      THEN <<TrackerEntry("ProcessNode", c.node)>>
                      ELSE IF c.phase = "post" /\ TypeOf(c.node) = "finish" /\ ex.feature
                      THEN <<TrackerEntry("FinishNode", c.node)>>
                      ELSE <<>>
         IN entry \o PostEntries(Tail(calls))

\* C11: a description with a node of unknown type is never built: convert
\* raises, no Flow exists, executeFlow rejects, and no node's prep, execute
\* or post has been invoked.
C11_UnknownTypeFailsBeforeTraversal ==
    (\E i \in 1..Len(desc.nodes) : desc.nodes[i].type \notin KnownTypes) =>
        /\ bpc # "returned"
        /\ flow = NoFlow
        /\ bpc = "raised" => berr = "Unknown node type"
        /\ ex.pos \in {"called", "rejected"}
        /\ ex.pos = "rejected" => ex.err.kind = "build"
        /\ ex.calls = <<>>
        /\ pc[Main] = "idle"

C11_Witness ==
    /\ \E i \in 1..Len(desc.nodes) : desc.nodes[i].type \notin KnownTypes
    /\ ex.pos = "rejected"
    /\ Len(desc.edges) > 0

\* What holds once the model invocation of a process node came to a
\* provider failure: the run is rejected with the model error, the last step
\* of the call is the execute phase of the failing node (its post did not
\* run, no successor was resolved, no later node ran), and the tracker holds
\* the entries of the posts before it only.
ProviderFailureAborts ==
    /\ ex.pos = "rejected"
    /\ ex.err.kind = "model"
    /\ pc[Main] = "idle"
    /\ LastCall = Call(ex.err.node, "exec")
    /\ ex.tinfo.entries = (IF ex.tinfo.present THEN PostEntries(ex.calls) ELSE <<>>)
    /\ ex.state.nodeExecutionTracker = <<>>

RunningNode == Deref(tmpl, clone, Main, cur[Main])

\* C13 (as claimed): when execCore of a process node ended with a
\* failure-shaped result, post runs, stores the failure object as last
\* response and returns an action, and orchestrate goes on to resolve the
\* successor: the run is not aborted.
C13_FailureResultContinues ==
    [][(/\ ex.pos = "running" /\ pc[Main] = "post"
        /\ RunningNode.kind = "process"
        /\ ~ex.execResult.success)
       => (/\ ex'.pos # "rejected"
           /\ ex'.state.lastResponse = FailureObject(ex.execResult.error)
           /\ ex'.calls = ex.calls \o <<Call(cur[Main].of, "post"),
                                        Call(cur[Main].of, "succ")>>)]_vars

\* C14 (as claimed): a run that a process node aborted was aborted in the
\* execute phase, by a model-invocation failure or a critical tool error.
C14_OnlyExecuteFaultsRaise ==
    (/\ ex.pos = "rejected" /\ ex.err.kind # "build"
     /\ TypeOf(LastCall.node) = "process")
    => (LastCall.phase = "exec" /\ ex.err.kind \in {"model", "tool"})

\* A finish node without outgoing edges has run its post on a history whose
\* last message is an assistant message with the string content c
FinishedOn(c) ==
    /\ ex.pos \in {"returned", "rejected"}
    /\ Len(ex.calls) > 0
    /\ TypeOf(LastCall.node) = "finish"
    /\ LastCall.phase \in {"post", "succ"}
    /\ tmpl[LastCall.node].successors = <<>>
    /\ Len(ex.state.messages) > 0
    /\ ex.state.messages[Len(ex.state.messages)] = Msg("assistant", c)

C19_PausedPositionExposed ==
    (ex.pos = "returned" /\ shared[Main].currentNodeId # NoId) =>
        \/ Field(ex.out, "currentNodeId") = shared[Main].currentNodeId
        \/ Field(ex.initialState, "currentNodeId") = shared[Main].currentNodeId

\* C20 (as claimed): the nodeExecutionTracker executeFlow returns holds, in
\* visit order, one entry for every process node whose post ran.
ProcessEntries(entries) == SelectSeq(entries, LAMBDA e : e.nodeType = "ProcessNode")

C20_TrackerReturned ==
    ex.pos = "returned" =>
        ProcessEntries(ex.out.nodeExecutionTracker) = ProcessEntries(PostEntries(ex.calls))

-----------------------------------------------------------------------------
(* Properties of BatchFlow *)

\* C16: the orchestrate calls of a BatchFlow run come one after another, one
\* per tuple in tuple order, each entered on the shared state as the call
\* before left it; a run over n tuples that returned made n calls and
\* returns n results.
C16_BatchRunsOncePerTuple ==
    ex.pos \in {"loop", "orchestrating", "returned"} =>
        /\ Len(ex.invocations) =
               Len(ex.execResult) + (IF ex.pos = "orchestrating" THEN 1 ELSE 0)
        /\ Len(ex.invocations) <= ex.n
        /\ \A k \in 1..Len(ex.invocations) :
              /\ ex.invocations[k].tuple = k
              /\ k > 1 => ex.invocations[k].entered = ex.invocations[k - 1].left
        /\ ex.pos = "returned" =>
              /\ Len(ex.invocations) = ex.n
              /\ Len(ex.execResult) = ex.n
              /\ ex.action = DEFAULT_ACTION

C16_Witness ==
    /\ ex.pos = "returned"
    /\ ex.n = 3
    /\ Len(ex.execResult) = 3
    /\ ex.invocations[2].entered = "A"
    /\ ex.invocations[3].entered = NoId

-----------------------------------------------------------------------------
(* Properties of RetryNode and of a Flow used as a node *)

\* C17: execCore is attempted at most maxRetries times; only the last
\* attempt can be one that did not raise, and its result is what execWrapper
\* returns; execWrapper raises exactly when maxRetries attempts raised, and
\* then post has not run.
C17_RetryBounded ==
    LET n == Len(ex.attempts) IN
    /\ n <= ex.maxRetries
    /\ \A k \in 1..(n - 1) : ex.attempts[k].raised
    /\ (n > 0 /\ ~ex.attempts[n].raised) =>
          (ex.pos \in {"post", "returned"} /\ ex.execResult = ex.attempts[n].value)
    /\ ex.pos \in {"post", "returned"} => (n > 0 /\ ~ex.attempts[n].raised)
    /\ ex.pos = "raised" =>
          /\ n = ex.maxRetries
          /\ \A k \in 1..n : ex.attempts[k].raised
          /\ ex.action = ""
    /\ (n = ex.maxRetries /\ \A k \in 1..n : ex.attempts[k].raised) =>
          ex.pos \in {"run", "delay", "attempt", "raised"}

C17_Witness ==
    /\ ex.pos = "returned"
    /\ ex.maxRetries = 3
    /\ Len(ex.attempts) = 3
    /\ ex.attempts[1].raised

\* C18: Flow.run goes through prep, the inner orchestration and post, never
\* through execCore, never raises by itself, and returns the action
\* "default" whether the inner orchestration paused or completed; a direct
\* call of Flow.execCore raises.
C18_FlowAsNode ==
    /\ \A k \in 1..Len(ex.calls) : ex.calls[k] # "execCore"
    /\ ex.pos # "raised"
    /\ ex.pos = "returned" =>
          /\ ex.calls = <<"prep", "orchestrate", "post">>
          /\ ex.action = DEFAULT_ACTION
          /\ hist[Main].outcome \in {"paused", "completed"}
    /\ ex.direct # "returned"

C18_Witness ==
    /\ ex.pos = "returned"
    /\ hist[Main].outcome = "paused"
    /\ ex.direct = "raised"

-----------------------------------------------------------------------------
(* Properties of the chat-completions route *)

\* A step that handles a request of ip
Handles(ip) ==
    \E header \in ForwardedFor, o \in ProcessOutcomes :
        clientIp(header) = ip /\ HandleRequest(header, o)

\* C21: within one window at most 60 requests of one client IP are let
\* through: a request of an ip whose record in the running window has
\* counted 60 is answered with 429 without being parsed.
C21_SixtyPerMinute ==
    [][\A ip \in Ips :
          (/\ Handles(ip)
           /\ ex.requestCounts[ip].present
           /\ ex.now < ex.requestCounts[ip].resetTime
           /\ ex.requestCounts[ip].count >= DocumentedLimit)
          => (ex'.last.status = 429 /\ ~ex'.last.parsed)]_vars

\* C22: a request that arrives at or after the boundary stored in the
\* record of its ip starts a new window: it is let through and the count
\* becomes 1.
C22_ResetAtBoundary ==
    [][\A ip \in Ips :
          (/\ Handles(ip)
           /\ ex.requestCounts[ip].present
           /\ ex.now >= ex.requestCounts[ip].resetTime)
          => (ex'.last.status # 429 /\ ex'.requestCounts[ip].count = 1)]_vars

-----------------------------------------------------------------------------
(* Properties of the finish node and of the lifecycle of a node *)

\* C27: FinishNode.post returns the first registered outgoing action when
\* the node has a successor and the final-response action when it has none;
\* in that case no successor is found and the run completes with
\* currentNodeId cleared.
C27_FinishFollowsFirstEdge ==
    [][\A action \in PostActions \cup {"", "t-mcp"} :
          (/\ NodePost(action)
           /\ RunningNode.kind = "finish"
           /\ ex'.pos # "rejected")
          => LET successors == RunningNode.successors
             IN /\ action = IF Len(successors) > 0 THEN successors[1].action
                            ELSE FINAL_RESPONSE_ACTION
                /\ Len(successors) = 0 =>
                      /\ ex'.pos = "returned"
                      /\ pc'[Main] = "idle"
                      /\ shared'[Main].currentNodeId = NoId]_vars

C27_Witness ==
    /\ ex.pos = "returned"
    /\ Len(ex.calls) > 0
    /\ TypeOf(LastCall.node) = "finish"
    /\ LastCall.phase = "succ"
    /\ tmpl[LastCall.node].successors = <<>>
    /\ shared[Main].currentNodeId = NoId

\* The phases of the nodes of a call come in the order prep, exec, post,
\* successor resolution, node after node
Ordered(calls) ==
    \A k \in 1..Len(calls) :
        /\ calls[k].phase = "prep" => (k = 1 \/ calls[k - 1].phase = "succ")
        /\ calls[k].phase = "exec" =>
              (k > 1 /\ calls[k - 1] = Call(calls[k].node, "prep"))
        /\ calls[k].phase = "post" =>
              (k > 1 /\ calls[k - 1] = Call(calls[k].node, "exec"))
        /\ calls[k].phase = "succ" =>
              (k > 1 /\ calls[k - 1] = Call(calls[k].node, "post"))

\* C28: prep, execute and post of a node run in this order, a phase that
\* raises is the last one of the call, the next node's prep starts after
\* the post of the current node, and currentNodeId is written only by the
\* step in which a post returns.
C28_LifecycleOrdered ==
    [][/\ Ordered(ex'.calls)
       /\ (ex'.pos = "rejected" /\ ex'.err.kind = "prep") =>
             ex'.calls[Len(ex'.calls)].phase = "prep"
       /\ (ex'.pos = "rejected" /\ ex'.err.kind \in {"model", "tool"}) =>
             ex'.calls[Len(ex'.calls)].phase = "exec"
       /\ shared'[Main] # shared[Main] =>
             /\ ex.pos = "running" /\ pc[Main] = "post"
             /\ ex'.calls = Append(ex.calls, Call(cur[Main].of, "post"))]_vars

C28_Witness ==
    /\ ex.pos = "returned"
    /\ shared[Main].currentNodeId = "B"
    /\ ex.calls = <<Call("A", "prep"), Call("A", "exec"), Call("A", "post"),
                    Call("A", "succ"), Call("B", "prep"), Call("B", "exec"),
                    Call("B", "post")>>

-----------------------------------------------------------------------------
(* Properties of the entry of orchestrate *)

\* The nodes reachable from the start node whose node_params carry the id
Matching(id) ==
    {x \in ReachFrom(tmpl, {flow.start}) : heap[tmpl[x].np].id = id}

\* C30: a call entered with a currentNodeId that no node reachable from the
\* start node carries begins at the start node (and raises no error: the
\* first node runs).
C30_UnknownIdFallsBackToStart ==
    \A r \in Runs :
        (/\ Running(r) /\ hist[r].first
         /\ hist[r].entry # NoId
         /\ Matching(hist[r].entry) = {})
        => (hist[r].node = flow.start /\ cur[r] = CloneOf(flow.start))

C30_Witness ==
    /\ wiring = "manual"
    /\ Running("r1") /\ hist["r1"].first
    /\ hist["r1"].entry = "B"
    /\ Matching("B") = {}
    /\ hist["r1"].node = "A"
    /\ pc["r1"] = "post"

-----------------------------------------------------------------------------
(* Properties of a process-node step *)

\* The messages of a history that are not system messages, in their order
RECURSIVE NonSystem(_)
NonSystem(messages) ==
    IF messages = <<>> THEN <<>>
    ELSE IF Head(messages).role = "system" THEN NonSystem(Tail(messages))
    ELSE <<Head(messages)>> \o NonSystem(Tail(messages))

\* The number of system messages of a history
SystemCount(messages) == Len(messages) - Len(NonSystem(messages))

\* prep of a process node has returned
ProcessPrepped == ex.kind = "process" /\ ex.pos \in {"prepped", "executed", "posted"}

\* C23: the message list ProcessNode.prep returns starts with the system
\* message of the rendered prompt, holds no other system message, and goes
\* on with the non-system messages of sharedState.messages in their order.
C23_PrepReordersHistory ==
    ProcessPrepped =>
        /\ Head(ex.prepResult.messages) = Msg("system", "prompt")
        /\ SystemCount(ex.prepResult.messages) = 1
        /\ Tail(ex.prepResult.messages) = NonSystem(ex.state0.messages)

C23_Witness ==
    /\ ProcessPrepped
    /\ SystemCount(ex.state0.messages) = 2

\* C24: after a process-node step whose model call returned the list it was
\* given with non-system messages added, or a failure result,
\* sharedState.messages holds exactly one system message.
C24_OneSystemMessageAfterStep ==
    (/\ ex.kind = "process"
     /\ ex.pos = "posted"
     /\ ex.outcome.kind = "ok" => ex.outcome.withMessages)
    => SystemCount(ex.state.messages) = 1

\* C25: ProcessNode.post never returns the id of a tool-binding edge; it
\* returns the id of the first flow-control edge in registration order, and
\* "default" when the node has no flow-control edge.
C25_FirstFlowControlEdge ==
    LET ids == [i \in 1..Len(ex.edges) |-> ex.edges[i]]
        control == SelectSeq(ids, LAMBDA e : ~e.binding)
    IN (ex.kind = "process" /\ ex.pos = "posted") =>
          /\ \A i \in 1..Len(ex.edges) : ex.edges[i].binding => ex.action # ex.edges[i].id
          /\ ex.action = IF control # <<>> THEN control[1].id ELSE "default"

\* C26: after post on a successful result, lastResponse is the generated
\* content and messages is the list execute returned.
C26_SuccessReplacesState ==
    (ex.kind = "process" /\ ex.pos = "posted" /\ ex.execResult.success) =>
        /\ ex.state.lastResponse = Text(ex.execResult.content)
        /\ ex.state.messages = ex.execResult.messages

\* C29: prep of every node kind (process, finish, Flow, BatchFlow) leaves
\* the shared state and the tracker as they were, whether it returns or
\* raises.
C29_PrepLeavesStateUnchanged ==
    [][ex.pos = "run" /\ ex'.pos # "run"
          => ex'.state = ex.state /\ ex'.tinfo = ex.tinfo /\ shared' = shared]_vars

C29_Witness ==
    /\ ex.kind = "process"
    /\ ex.pos = "prepped"
    /\ ex.state0.messages = <<Msg("user", "hi"), Msg("system", "old")>>
    /\ ex.prepResult.messages # ex.state.messages

-----------------------------------------------------------------------------
(* Properties of the params and the successor maps during traversals *)

C32_SuccessorsImmutable ==
    [][bpc = "returned" =>
          /\ DOMAIN tmpl' = DOMAIN tmpl
          /\ \A n \in DOMAIN tmpl : tmpl'[n].successors = tmpl[n].successors]_vars

C32_Witness ==
    /\ bpc = "returned"
    /\ hist["r1"].outcome = "paused"
    /\ \E n \in DOMAIN tmpl : tmpl[n].fp = FlowRef /\ Len(tmpl[n].successors) > 0

-----------------------------------------------------------------------------
(* Properties of processToolCalls *)

\* The positions of the tool messages of a list, in order
ToolPositions(messages) ==
    SelectSeq([i \in 1..Len(messages) |-> i], LAMBDA i : messages[i].role = "tool")

-----------------------------------------------------------------------------
(* Properties of suspension and abort across calls *)

\* C34: when a node of the nested Flow returned the suspend action, the
\* outer orchestrate runs no node after the nested Flow and returns with
\* currentNodeId still the id of the suspended node.
C34_NestedSuspensionStopsOuter ==
    (/\ hist[Main].outcome = "paused"
     /\ ex.outer \in {"paused", "completed"})
    => (/\ ex.outerRan = <<>>
        /\ shared[Main].currentNodeId = hist[Main].node)

\* C35: when the orchestrate call of one tuple of a BatchFlow run paused, no
\* later tuple is orchestrated in that run, and the run returns with
\* currentNodeId still the id the paused call left.
C35_BatchSuspensionStopsRun ==
    \A k \in 1..Len(ex.invocations) :
        ex.invocations[k].outcome = "paused" =>
            /\ k = Len(ex.invocations)
            /\ ex.pos = "returned" =>
                   shared[Main].currentNodeId = ex.invocations[k].left

\* C36: a node's run that raises during orchestrate writes nothing to the
\* shared state's currentNodeId, and when the call is rejected by a node
\* currentNodeId is what the call was entered with: the persisted position
\* of a resumed run, unset in a fresh run.
C36_AbortKeepsPosition ==
    [][(ex.pos = "running" /\ ex'.pos = "rejected")
          => /\ shared' = shared
             /\ shared'[Main].currentNodeId = ex.entered]_vars

C36_Witness ==
    /\ ex.pos = "rejected"
    /\ ex.entered = "B"
    /\ Len(ex.calls) > 3
    /\ shared[Main].currentNodeId = "B"

\* C37: when execWrapper of a RetryNode has ended after k >= 1 attempts, it
\* has waited exactly k - 1 times: between consecutive attempts only, and
\* not after the last failed attempt before the exhaustion error.
C37_WaitsOnlyBetweenAttempts ==
    (ex.pos \in {"post", "returned", "raised"} /\ Len(ex.attempts) >= 1)
        => ex.i = Len(ex.attempts) - 1

-----------------------------------------------------------------------------
(* Termination *)

\* C38: the resume search ends on every graph, cyclic or not: with the node
\* whose id matches, or with the start node when the queue ran empty; the
\* start node was pushed at most twice, every other node at most once, and
\* the loop made no more passes than pushes.  The result is the one the
\* entry of orchestrate computes.
C38_SearchTerminates ==
    (ex.pos = "searching") ~>
        (/\ ex.pos \in {"found", "fallback"}
         /\ \A n \in Ids : ex.pushed[n] <= (IF n = flow.start THEN 2 ELSE 1)
         /\ ex.passes <= ex.pushed["A"] + ex.pushed["B"]
         /\ ex.pos = "found" =>
                heap[Deref(tmpl, clone, Main, ex.found).np].id
                    = shared[Main].currentNodeId
         /\ ex.pos = "fallback" => (ex.queue = <<>> /\ ex.found = CloneOf(flow.start))
         /\ entryNode(heap, tmpl, flow, Main, shared[Main].currentNodeId).cur
                = ex.found)

C38_Witness ==
    /\ ex.pos = "fallback"
    /\ ex.pushed[flow.start] = 2
    /\ ex.pushed["B"] = 1
    /\ \E i \in 1..Len(tmpl["B"].successors) : tmpl["B"].successors[i].target = "A"
    /\ \E i \in 1..Len(tmpl["B"].successors) : tmpl["B"].successors[i].target = "B"
    /\ ex.passes = 3

\* C39: on an acyclic graph, a call that entered orchestrate ends: rejected
\* (aborted, the position as on entry) or returned (completed with the
\* position cleared, or paused), and it has then run at least one node and
\* no more nodes than lie on the longest path from the node it began with.
C39_CallEndsWithinLongestPath ==
    (ex.pos = "running") ~>
        (/\ ex.pos \in {"returned", "rejected"}
         /\ pc[Main] = "idle"
         /\ Visits >= 1
         /\ Visits <= LongestFrom(tmpl, ex.calls[1].node)
         /\ ex.pos = "rejected" => shared[Main].currentNodeId = ex.entered
         /\ (ex.pos = "returned" /\ ex.calls[Len(ex.calls)].phase = "succ")
                => shared[Main].currentNodeId = NoId)

C39_Witness ==
    /\ ex.pos = "returned"
    /\ ex.entered = "A"
    /\ Visits = 2
    /\ ex.calls[1].node = "A"
    /\ LongestFrom(tmpl, "A") = 2
    /\ ex.calls[Len(ex.calls)].phase = "succ"

====
